---- MODULE Spec2Model ----
(***************************************************************************)
(* A model of Spark-AI-API (ywatanabe1989/Spark-AI-API):                   *)
(*   - ChromeManager, the pool of Selenium drivers keyed by browser id     *)
(*     (src/src/sparkai/ChromeManager.py);                                 *)
(*   - SparkAI, the facade that acquires a driver, logs in and sends       *)
(*     (src/src/sparkai/SparkAI.py);                                       *)
(*   - login_to_spark, the SSO login flow (src/src/sparkai/auth_utils.py). *)
(*                                                                         *)
(* A driver object is a Handle, numbered 1..MaxHandles in the order of     *)
(* construction.  A Chrome process is a browser; the browser a driver has  *)
(* launched carries the driver's number, ExtBrowser is a Chrome started    *)
(* outside the pool with a remote debugging port.                          *)
(***************************************************************************)
EXTENDS Integers, Sequences, FiniteSets, TLC

\* ------------------------------------------------------------------ bounds
MaxHandles == 2
MaxRetries == 2
\* the longest message typed, in characters
MaxLen == 3
\* the turns of the loop of is_logged_in_to_spark that fit in max_wait_sec
MaxPolls == 2
\* the calls of get_response_from_spark made after the one of send_message
MaxRepeats == 1
\* the cookies of a cookie file
MaxCookies == 2

\* ------------------------------------------------------- program constants
max_attempts == 3
init_max_attempts == 3
\* get_response_from_spark(self, browser_id, timeout_sec=30)
default_timeout_sec == 30
\* SparkAI.__init__(..., response_timeout=120, ...)
default_response_timeout == 120

BrowserIds == {"a", "b"}
NoId == "none"
NoDriver == 0
Handles == 1..MaxHandles
ExtBrowser == 0
NoBrowser == -1
Browsers == Handles \cup {ExtBrowser}

\* the outcome of one webdriver.Chrome(options) launch
LaunchOutcome == {"ok", "renderer", "other"}
\* the outcome of webdriver.Chrome(debuggerAddress) followed by current_url,
\* which sit in one try block: both succeed, or one of them raises
AttachOutcome == {"ok", "refused"}

VARIABLES
    drivers,     \* ChromeManager.drivers: browser id -> Handle, NoDriver when absent
    created,     \* the number of driver objects constructed so far
    session,     \* Handle -> "none" | "open" | "lost" (unresponsive) | "quit"
    browserOf,   \* Handle -> the browser it drives
    running,     \* the Chrome processes that are up
    portOwner,   \* the browser listening on the remote debugging port
    ret,         \* the last call of the API: what it was given, found and returned
    spark,       \* the SparkAI object: its fields and the position of __init__
    login,       \* the login flow in progress: position, page facts, UI actions
    chat,        \* the send_message call in progress: position, keys, response
    cli,         \* the command-line run in progress: entry point, position, exit code
    jar          \* the load_cookies call in progress: the file, the position, what was added

poolVars == <<drivers, created, session, browserOf, running, portOwner>>
vars == <<drivers, created, session, browserOf, running, portOwner,
          ret, spark, login, chat, cli, jar>>

\* The pool and the processes around it as one value, so that a handler that
\* calls another handler composes.
World ==
    [drivers |-> drivers, created |-> created, session |-> session,
     browserOf |-> browserOf, running |-> running,
     portOwner |-> portOwner]

\* ------------------------------------------------------------ the drivers

\* The session of driver h answers commands.
Answers(w, h) == h # NoDriver /\ w.session[h] = "open"

\* Faulty variant: the liveness test of get_driver left out
Responsive_always(w, h) == h # NoDriver

\* get_driver's test: self.drivers[browser_id].current_url does not raise
Responsive(w, h) == Answers(w, h)

\* Faulty variant: a liveness check that never finds the driver alive
is_driver_alive_never(w, h) == FALSE

\* is_driver_alive(driver): driver.current_url does not raise
is_driver_alive(w, h) == Answers(w, h)

\* browser_id in self.drivers
InPool(w, id) == id \in BrowserIds /\ w.drivers[id] # NoDriver

\* A Chrome process ends: every driver session on it stops answering.
BrowserDown(w, bs) ==
    [w EXCEPT
       !.running = @ \ bs,
       !.portOwner = IF @ \in bs THEN NoBrowser ELSE @,
       !.session = [h \in Handles |->
                      IF w.session[h] = "open" /\ w.browserOf[h] \in bs
                      THEN "lost" ELSE w.session[h]]]

\* os.system("pkill -f chrome"): every Chrome process of the machine ends
PkillChrome(w) == BrowserDown(w, w.running)

\* driver.quit(): the session ends; the Chrome the driver launched ends with
\* it, a Chrome it was attached to (debuggerAddress) stays up.
Quit(w, h) ==
    LET q == [w EXCEPT !.session[h] = "quit"]
    IN  IF w.browserOf[h] = h THEN BrowserDown(q, {h}) ELSE q

\* Faulty variant: the new driver is returned and not recorded
StoreDriver_skip(w, id, h) == w

\* self.drivers[browser_id] = driver
StoreDriver(w, id, h) == [w EXCEPT !.drivers[id] = h]

\* del self.drivers[browser_id]
DelDriver(w, id) == [w EXCEPT !.drivers[id] = NoDriver]

\* webdriver.Chrome(options) succeeded: a new driver with a Chrome of its own,
\* which takes the remote debugging port when asked to and the port is free.
Launched(w, id, remote_debugging) ==
    LET h == w.created + 1
    IN  [w EXCEPT
           !.created = h,
           !.session[h] = "open",
           !.browserOf[h] = h,
           !.running = @ \cup {h},
           !.portOwner = IF remote_debugging /\ @ = NoBrowser THEN h ELSE @]

\* webdriver.Chrome(debuggerAddress) succeeded: a new driver on the Chrome
\* that listens on the port.
Attached(w, id) ==
    LET h == w.created + 1
    IN  [w EXCEPT
           !.created = h,
           !.session[h] = "open",
           !.browserOf[h] = w.portOwner]

\* ------------------------------------------------- ChromeManager.setup_chrome

\* What a handler hands back: the world it leaves, the driver it returns
\* (NoDriver when it raises or returns None), whether it raised, how many
\* drivers it tried to construct, and the headless flag of every launch.
Result(w, val, raised, constructed, modes) ==
    [w |-> w, val |-> val, raised |-> raised, constructed |-> constructed,
     modes |-> modes]

\* The launch outcomes a call can meet: failures, then successes.
LaunchScripts ==
    {o \in [1..max_attempts -> LaunchOutcome] :
        \A i \in 1..(max_attempts - 1) : o[i] = "ok" => o[i + 1] = "ok"}

\* n failures of one kind, then success
FailuresThenOk(n, kind) == [i \in 1..max_attempts |-> IF i <= n THEN kind ELSE "ok"]

\* The scripts the pool is driven with.  The pool does not read the kind of a
\* failure (only the headless flag of the next launch does), so one kind
\* covers what the pool does.
PoolScripts == {FailuresThenOk(n, "other") : n \in 0..max_attempts}

\* The headless flag the pool is driven with: it is passed on to Chrome and
\* read by nothing that changes the pool.
PoolHeadless == {FALSE}

\* Faulty variant: every failure forces headless mode
NextHeadless_on_any_failure(headless, outcome) == headless \/ outcome # "ok"

\* if "unable to connect to renderer" in str(e) and not headless: headless = True
NextHeadless(headless, outcome) == headless \/ outcome = "renderer"

\* for attempt in range(max_attempts): ... raise Exception(...)
RECURSIVE LaunchLoop(_, _, _, _, _, _)
LaunchLoop(w, id, remote_debugging, headless, outs, attempt) ==
    IF attempt >= max_attempts
    THEN Result(w, NoDriver, TRUE, attempt, <<>>)
    ELSE IF outs[attempt + 1] = "ok"
    THEN LET w2 == Launched(w, id, remote_debugging)
         IN  Result(StoreDriver(w2, id, w2.created), w2.created, FALSE,
                    attempt + 1, <<headless>>)
    ELSE LET r == LaunchLoop(PkillChrome(w), id, remote_debugging,
                             NextHeadless(headless, outs[attempt + 1]),
                             outs, attempt + 1)
         IN  [r EXCEPT !.modes = <<headless>> \o @]

\* The attach of lines 97-124 meets a Chrome on the port or is refused.
AttachResult(w, att) == IF w.portOwner = NoBrowser THEN "refused" ELSE att

\* What an attach can meet in world w.
AttachInputs(w) == IF w.portOwner = NoBrowser THEN {"refused"} ELSE AttachOutcome

\* The reuse test of lines 90-95.
ReusesDriver(w, id, force_new) ==
    InPool(w, id) /\ is_driver_alive(w, w.drivers[id]) /\ ~force_new

setup_chrome(w, id, headless, remote_debugging, kill_zombie, force_new, att, outs) ==
    IF ReusesDriver(w, id, force_new)
    THEN Result(w, w.drivers[id], FALSE, 0, <<>>)
    ELSE
    LET tries == ~force_new /\ remote_debugging
        got == IF tries THEN AttachResult(w, att) ELSE "refused"
    IN  IF got = "ok"
        THEN LET w2 == Attached(w, id)
             IN  Result(StoreDriver(w2, id, w2.created), w2.created, FALSE, 1, <<>>)
        ELSE
        LET w2 == IF kill_zombie THEN PkillChrome(w) ELSE w
            r  == LaunchLoop(w2, id, remote_debugging, headless, outs, 0)
        IN  [r EXCEPT !.constructed = @ + (IF tries THEN 1 ELSE 0)]

\* The <<attach outcome, launch script>> pairs setup_chrome can meet: none is
\* read on reuse, no launch follows an attach that stands.
SetupInputs(w, id, remote_debugging, force_new) ==
    IF ReusesDriver(w, id, force_new)
    THEN {<<"refused", FailuresThenOk(0, "other")>>}
    ELSE LET atts == IF ~force_new /\ remote_debugging
                     THEN AttachInputs(w) ELSE {"refused"}
         IN  {<<"ok", FailuresThenOk(0, "other")>> : a \in atts \cap {"ok"}}
             \cup {<<"refused", o>> : o \in PoolScripts}

\* --------------------------------------------------- ChromeManager.get_driver
get_driver(w, id, headless, remote_debugging, force_new, att, outs) ==
    IF InPool(w, id)
    THEN IF Responsive(w, w.drivers[id])
         THEN Result(w, w.drivers[id], FALSE, 0, <<>>)
         ELSE setup_chrome(DelDriver(Quit(w, w.drivers[id]), id), id, headless,
                           remote_debugging, FALSE, force_new, att, outs)
    ELSE setup_chrome(w, id, headless, remote_debugging, FALSE, force_new, att, outs)

GetDriverInputs(w, id, remote_debugging, force_new) ==
    IF InPool(w, id) /\ Responsive(w, w.drivers[id])
    THEN {<<"refused", FailuresThenOk(0, "other")>>}
    ELSE SetupInputs(IF InPool(w, id) THEN DelDriver(Quit(w, w.drivers[id]), id) ELSE w,
                     id, remote_debugging, force_new)

\* ------------------------------------------------- ChromeManager.close_driver
\* Faulty variant: no try/except around driver.quit()
close_driver_raising(w, id, quit_raises) ==
    IF InPool(w, id)
    THEN IF quit_raises
         THEN Result(Quit(w, w.drivers[id]), NoDriver, TRUE, 0, <<>>)
         ELSE Result(DelDriver(Quit(w, w.drivers[id]), id), NoDriver, FALSE, 0, <<>>)
    ELSE Result(w, NoDriver, FALSE, 0, <<>>)

\* quit_raises: driver.quit() raised; the bare except swallows it and the
\* entry is deleted all the same.  The driver is shut down in both cases.
close_driver(w, id, quit_raises) ==
    IF InPool(w, id)
    THEN Result(DelDriver(Quit(w, w.drivers[id]), id), NoDriver, FALSE, 0, <<>>)
    ELSE Result(w, NoDriver, FALSE, 0, <<>>)

\* ---------------------------------------------------- ChromeManager.close_all
RECURSIVE close_ids(_, _, _)
close_ids(w, ids, quit_raises) ==
    IF ids = {} THEN w
    ELSE LET id == CHOOSE i \in ids : TRUE
         IN  close_ids(close_driver(w, id, quit_raises).w, ids \ {id}, quit_raises)

close_all(w, quit_raises) ==
    Result(close_ids(w, {id \in BrowserIds : InPool(w, id)}, quit_raises),
           NoDriver, FALSE, 0, <<>>)

\* -------------------------------- ChromeManager.close and .release_driver
\* Faulty variant: a close that quits the driver, as SparkAI.close of src/main.py does
close_quits(w, id) == close_driver(w, id, FALSE)

close(w, id) == Result(w, NoDriver, FALSE, 0, <<>>)

release_driver(w, id) == Result(w, NoDriver, FALSE, 0, <<>>)

\* ------------------------------------------------------ ChromeManager.attach
\* The id the call works with: the one given, or a new uuid4 (an id the pool
\* does not hold) taken only once a connection stands.
RECURSIVE attach_loop(_, _, _, _, _, _)
attach_loop(w, id, fresh, max_retries, atts, attempt) ==
    IF attempt >= max_retries
    THEN Result(w, NoDriver, FALSE, attempt, <<>>)
    ELSE LET got == AttachResult(w, atts[attempt + 1])
             key == IF id = NoId THEN fresh ELSE id
         IN  IF got = "ok"
             THEN LET w2 == Attached(w, key)
                  IN  Result(StoreDriver(w2, key, w2.created), w2.created, FALSE,
                             attempt + 1, <<>>)
             ELSE attach_loop(w, id, fresh, max_retries, atts, attempt + 1)

attach(w, id, fresh, has_address, max_retries, atts) ==
    IF id # NoId /\ InPool(w, id) /\ is_driver_alive(w, w.drivers[id])
    THEN Result(w, w.drivers[id], FALSE, 0, <<>>)
    ELSE IF has_address
    THEN attach_loop(w, id, fresh, max_retries, atts, 0)
    ELSE Result(w, NoDriver, FALSE, 0, <<>>)

\* ----------------------------------------------------------- the SparkAI object
\* phase: the position of __init__ ("acquiring": in the retry loop of lines
\* 113-143, "post_init": at line 152), "ready" once it has returned, "failed"
\* once it has raised.  chat_id_arg is the chat_id argument ("none" for None,
\* "T" for a thread), chat_id the attribute self.chat_id, url the address the
\* constructor last brought the browser to: "new_chat" for .../securechat,
\* "thread" for .../securechat/threads/T.
NoSpark ==
    [phase |-> "none", browser_id |-> NoId, force_new_window |-> FALSE,
     initialized |-> FALSE, attempt |-> 0, force_new_chat |-> FALSE,
     chat_id_arg |-> "none", chat_id |-> "none", url |-> "none"]

NoLogin ==
    [pc |-> "idle", flow |-> "none", browser_id |-> NoId, driver |-> NoDriver,
     blank |-> FALSE, acts |-> <<>>, result |-> "none", seen_auto |-> "none",
     seen_entry |-> "none", entered |-> FALSE, caught |-> FALSE,
     offered |-> {}, seen_push |-> "unsought", seen_auth |-> "unsought",
     chosen |-> "none", timed_out |-> FALSE, seen_other |-> "unsought",
     switched |-> FALSE]

\* is_logged_in_to_spark has not been called.  displayed: the call saw the
\* element named "prompt" displayed; looks: after the time was over the URL
\* and the page source looked like the chat page's.
NoCheck ==
    [caller |-> "none", result |-> "none", polls |-> 0, timed_out |-> FALSE,
     filled |-> FALSE, login_form_filled |-> FALSE, fills |-> 0,
     displayed |-> FALSE, looks |-> FALSE]

\* No send_message call was made yet.
NoChat ==
    [pc |-> "idle", id |-> NoId, driver |-> NoDriver, blank |-> FALSE,
     creds |-> FALSE,
     env_creds |-> FALSE, response_timeout |-> 0, message |-> <<>>,
     url |-> "none", log |-> <<>>, keys |-> <<>>, sent |-> "none",
     check |-> NoCheck, completion |-> "none", timeout_sec |-> 0,
     tried |-> <<>>, source |-> "none", result |-> "none",
     text |-> "none", calls |-> 0, prev |-> "none", out |-> <<>>,
     baseline |-> -1, page |-> "kept", box |-> "none"]

\* A command-line run: entry is the main that runs ("SparkAI.main", the
\* console script of setup.py, or "main.py", the script src/main.py with its
\* own SparkAI class); message says whether a message was given; pc is
\* "running" until the process ends; exit is the exit code of the process;
\* debug says whether SPARKAI_DEBUG is true, yes or 1 in its environment;
\* driver the browser the script of src/main.py launched for itself.
NoCli ==
    [entry |-> "none", pc |-> "none", message |-> "none", keep_open |-> FALSE,
     driver |-> NoDriver, sent |-> "none", exit |-> -1, debug |-> FALSE,
     cookie_file |-> "none", cookies |-> <<>>, authenticated |-> FALSE]

\* The load_cookies call: file is the list json.load returned, url the address
\* the browser shows after driver.get, i the cookie the loop is at, added the
\* positions of the cookies handed to driver.add_cookie and taken by the
\* browser, refused those whose add_cookie or current_url raised.
NoJar ==
    [pc |-> "none", id |-> NoId, driver |-> NoDriver, file |-> <<>>,
     url |-> "none", i |-> 0, added |-> <<>>, refused |-> {}, result |-> "none"]

\* The program is one thread: while SparkAI.__init__ runs, nothing else calls
\* the pool.
Idle == spark.phase \in {"none", "ready", "failed"}

\* ---------------------------------------------------------------- the state
NoRet ==
    [op |-> "none", id |-> NoId, force_new |-> FALSE, pre |-> NoDriver,
     preAlive |-> FALSE, val |-> NoDriver, raised |-> FALSE, constructed |-> 0,
     valAlive |-> FALSE, effect |-> "none"]

\* What a call that takes World to w2 for browser id `id` did to the rest:
\* "others" when the pool entry of another id changed or the driver of another
\* id stopped answering, "none" when nothing changed at all, else "own".
EffectOf(id, w2) ==
    IF \E b \in BrowserIds \ {id} :
          \/ w2.drivers[b] # drivers[b]
          \/ Answers(World, drivers[b]) /\ ~Answers(w2, drivers[b])
    THEN "others"
    ELSE IF w2 = World THEN "none" ELSE "own"

\* The record of a call: what the pool held for the id when it began, what
\* the call gave back, whether that driver answered at the return, and what
\* the call did to the rest of the world.
RetOf(op, id, force_new, r) ==
    [op |-> op, id |-> id, force_new |-> force_new,
     pre |-> IF id \in BrowserIds THEN drivers[id] ELSE NoDriver,
     preAlive |-> id \in BrowserIds /\ Answers(World, drivers[id]),
     val |-> r.val, raised |-> r.raised, constructed |-> r.constructed,
     valAlive |-> Answers(r.w, r.val),
     effect |-> EffectOf(id, r.w)]

Init ==
    /\ drivers = [id \in BrowserIds |-> NoDriver]
    /\ created = 0
    /\ session = [h \in Handles |-> "none"]
    /\ browserOf = [h \in Handles |-> NoBrowser]
    /\ running = {}
    /\ portOwner = NoBrowser
    /\ ret = NoRet
    /\ spark = NoSpark
    /\ login = NoLogin
    /\ chat = NoChat
    /\ cli = NoCli
    /\ jar = NoJar

\* The world a handler leaves becomes the state.
Becomes(w) ==
    /\ w.created <= MaxHandles
    /\ drivers' = w.drivers
    /\ created' = w.created
    /\ session' = w.session
    /\ browserOf' = w.browserOf
    /\ running' = w.running
    /\ portOwner' = w.portOwner

\* ------------------------------------------------- the calls of ChromeManager
SetupChrome ==
    \E id \in BrowserIds, headless \in PoolHeadless,
       remote_debugging, kill_zombie, force_new \in BOOLEAN :
      \E in \in SetupInputs(World, id, remote_debugging, force_new) :
        \E r \in {setup_chrome(World, id, headless, remote_debugging, kill_zombie,
                              force_new, in[1], in[2])} :
            /\ Idle
            /\ Becomes(r.w)
            /\ ret' = RetOf("setup_chrome", id, force_new, r)
            /\ UNCHANGED <<spark, login, chat, cli, jar>>

GetDriver ==
    \E id \in BrowserIds, headless \in PoolHeadless,
       remote_debugging, force_new \in BOOLEAN :
      \E in \in GetDriverInputs(World, id, remote_debugging, force_new) :
        \E r \in {get_driver(World, id, headless, remote_debugging, force_new,
                              in[1], in[2])} :
            /\ Idle
            /\ Becomes(r.w)
            /\ ret' = RetOf("get_driver", id, force_new, r)
            /\ UNCHANGED <<spark, login, chat, cli, jar>>

CloseDriver ==
    \E id \in BrowserIds, quit_raises \in BOOLEAN :
        \E r \in {close_driver(World, id, quit_raises)} :
            /\ Idle
            /\ Becomes(r.w)
            /\ ret' = RetOf("close_driver", id, FALSE, r)
            /\ UNCHANGED <<spark, login, chat, cli, jar>>

CloseAll ==
    \E quit_raises \in BOOLEAN :
        \E r \in {close_all(World, quit_raises)} :
            /\ Idle
            /\ Becomes(r.w)
            /\ ret' = RetOf("close_all", NoId, FALSE, r)
            /\ UNCHANGED <<spark, login, chat, cli, jar>>

Close ==
    \E id \in BrowserIds :
        \E r \in {close(World, id)} :
            /\ Idle
            /\ Becomes(r.w)
            /\ ret' = RetOf("close", id, FALSE, r)
            /\ UNCHANGED <<spark, login, chat, cli, jar>>

ReleaseDriver ==
    \E id \in BrowserIds :
        \E r \in {release_driver(World, id)} :
            /\ Idle
            /\ Becomes(r.w)
            /\ ret' = RetOf("release_driver", id, FALSE, r)
            /\ UNCHANGED <<spark, login, chat, cli, jar>>

Attach ==
    \E id \in BrowserIds \cup {NoId}, has_address \in BOOLEAN :
      \E fresh \in IF id = NoId THEN {f \in BrowserIds : ~InPool(World, f)} ELSE {id},
         max_retries \in IF has_address THEN 1..MaxRetries ELSE {1},
         atts \in [1..MaxRetries -> IF has_address THEN AttachInputs(World)
                                   ELSE {"refused"}] :
        /\ \A i \in 1..MaxRetries : i > max_retries => atts[i] = "refused"
        /\ \E r \in {attach(World, id, fresh, has_address, max_retries, atts)} :
            /\ Idle
            /\ Becomes(r.w)
            /\ ret' = RetOf("attach", IF id = NoId /\ r.val # NoDriver THEN fresh ELSE id,
                            FALSE, r)
            /\ UNCHANGED <<spark, login, chat, cli, jar>>

\* ------------------------------------------------------------ the environment
\* A Chrome process dies or its window is closed by hand.
BrowserCrash ==
    \E b \in running :
        /\ Becomes(BrowserDown(World, {b}))
        /\ UNCHANGED <<ret, spark, login, chat, cli, jar>>

\* launch_chrome_for_debugging, or google-chrome --remote-debugging-port typed
\* by the operator: a Chrome outside the pool comes up on the port.
LaunchChromeForDebugging ==
    /\ ExtBrowser \notin running
    /\ running' = running \cup {ExtBrowser}
    /\ portOwner' = IF portOwner = NoBrowser THEN ExtBrowser ELSE portOwner
    /\ UNCHANGED <<drivers, created, session, browserOf, ret, spark, login,
                   chat, cli, jar>>

\* ------------------------------------------------------------ SparkAI.__init__
\* SparkAI(browser_id=..., force_new_window=...) up to the retry loop of
\* lines 113-143.
SparkAI_new ==
    \E id \in BrowserIds, force_new_window, force_new_chat \in BOOLEAN,
       chat_id \in {"none", "T"} :
        /\ Idle
        /\ spark' = [phase |-> "acquiring", browser_id |-> id,
                     force_new_window |-> force_new_window,
                     initialized |-> FALSE, attempt |-> 0,
                     force_new_chat |-> force_new_chat,
                     chat_id_arg |-> chat_id, chat_id |-> chat_id,
                     url |-> "none"]
        /\ UNCHANGED <<drivers, created, session, browserOf, running,
                       portOwner, ret, login, chat, cli, jar>>

\* Faulty variant: a retry loop that never gives up
init_attempt_no_limit(sp, r) ==
    IF r.raised
    THEN [sp EXCEPT !.attempt = @ + 1]
    ELSE [sp EXCEPT !.attempt = @ + 1, !.initialized = TRUE, !.phase = "post_init"]

\* One turn of the loop: get_driver, and on success the break; on an exception
\* the next turn after the sleep, or the raise of lines 146-150 after the last.
init_attempt(sp, r) ==
    IF r.raised
    THEN [sp EXCEPT !.attempt = @ + 1,
                    !.phase = IF sp.attempt + 1 >= init_max_attempts
                              THEN "failed" ELSE "acquiring"]
    ELSE [sp EXCEPT !.attempt = @ + 1,
                    !.initialized = TRUE,
                    !.phase = "post_init"]

\* Lines 129-134, inside the loop once get_driver gave a driver: with
\* force_new_chat the browser is sent to the new-chat address and self.chat_id
\* is reset.  got: driver.get of navigate_to went through.
force_new_chat_navigate(sp, got) ==
    IF sp.force_new_chat /\ sp.phase = "post_init"
    THEN [sp EXCEPT !.url = IF got THEN "new_chat" ELSE @, !.chat_id = "none"]
    ELSE sp

\* ret.constructed counts the constructions of the whole __init__ so far.
SparkAI_init_attempt ==
    /\ spark.phase = "acquiring"
    /\ \E headless \in PoolHeadless :
      \E in \in GetDriverInputs(World, spark.browser_id, TRUE, spark.force_new_window) :
        \E r \in {get_driver(World, spark.browser_id, headless, TRUE,
                            spark.force_new_window, in[1], in[2])} :
            /\ Becomes(r.w)
            /\ ret' = [RetOf("SparkAI.__init__", spark.browser_id,
                             spark.force_new_window, r)
                       EXCEPT !.constructed =
                           @ + (IF spark.attempt = 0 THEN 0 ELSE ret.constructed)]
            /\ \E got \in IF spark.force_new_chat /\ ~r.raised
                           THEN BOOLEAN ELSE {TRUE} :
                  spark' = force_new_chat_navigate(init_attempt(spark, r), got)
            /\ UNCHANGED <<login, chat, cli, jar>>

\* The address _determine_sparkai_url gives for a chat_id, lines 258-266.
_determine_sparkai_url(chat_id) ==
    IF chat_id # "none" THEN "thread" ELSE "new_chat"

\* Lines 152-166: the address of the chat_id argument (line 156), and with
\* auto_login and credentials _auto_login, which returns at once when the
\* prompt field is displayed (auto = "already") and otherwise has
\* login_to_spark send the browser to .../securechat (auto = "login").
post_init_url(sp, got, auto) ==
    IF auto = "login" THEN "new_chat"
    ELSE IF got THEN _determine_sparkai_url(sp.chat_id_arg)
    ELSE sp.url

\* Lines 152-166: navigate_to(browser_id, url), which asks the pool for the
\* driver again with the default options; what it raises is swallowed.
SparkAI_post_init ==
    /\ spark.phase = "post_init"
    /\ \E in \in GetDriverInputs(World, spark.browser_id, TRUE, FALSE),
          got \in BOOLEAN, auto \in {"off", "already", "login"} :
        \E r \in {get_driver(World, spark.browser_id, FALSE, TRUE, FALSE, in[1], in[2])} :
            /\ Becomes(r.w)
            /\ ret' = RetOf("navigate_to", spark.browser_id, FALSE, r)
            /\ spark' = [spark EXCEPT !.phase = "ready",
                                      !.url = post_init_url(spark,
                                                 got /\ ~r.raised, auto)]
            /\ UNCHANGED <<login, chat, cli, jar>>

\* ---------------------------------------------- SparkAI.close and .destroy
SparkAI_close(w, id) == close(w, id)

\* keep_browser: SPARKAI_KEEP_BROWSER is "true", "yes" or "1"
SparkAI_destroy(w, id, keep_browser, quit_raises) ==
    IF keep_browser THEN close(w, id) ELSE close_driver(w, id, quit_raises)

SparkAIClose ==
    /\ spark.phase = "ready"
    /\ \E r \in {SparkAI_close(World, spark.browser_id)} :
        /\ Becomes(r.w)
        /\ ret' = RetOf("SparkAI.close", spark.browser_id, FALSE, r)
        /\ UNCHANGED <<spark, login, chat, cli, jar>>

SparkAIDestroy ==
    /\ spark.phase = "ready"
    /\ \E keep_browser, quit_raises \in BOOLEAN :
        \E r \in {SparkAI_destroy(World, spark.browser_id, keep_browser, quit_raises)} :
            /\ Becomes(r.w)
            /\ ret' = RetOf(IF keep_browser THEN "SparkAI.destroy_keep"
                            ELSE "SparkAI.destroy",
                            spark.browser_id, FALSE, r)
            /\ UNCHANGED <<spark, login, chat, cli, jar>>


\* ====================================================================
\* The login flow: SparkAI._auto_login, ChromeManager.login_to_spark,
\* auth_utils.login_to_spark and auth_utils.handle_duo_authentication
\* ====================================================================
\* login.pc is the place of the flow, login.acts the fields it filled and the
\* controls it clicked, in order; login.blank says that the driver was
\* launched by the flow and has loaded no page; login.seen_auto is what the check of
\* _auto_login found of the element named "prompt", login.seen_entry what the
\* 5 second wait of login_to_spark found of it.  login.entered says that
\* auth_utils.login_to_spark was called, login.caught that a driver call in it
\* (or in handle_duo_authentication) raised and an except clause took the
\* exception, login.offered that the operator was given time or word to finish
\* by hand: the max_wait_sec wait of line 129 was made, or the message of
\* line 211 was written.

\* The page is the site's: what a lookup finds is the environment's choice, a
\* driver whose session is gone raises on every call.
Alive == Answers(World, login.driver)

\* the element named "prompt": not in the page, in it but not displayed, displayed
Marker == {"absent", "hidden", "shown"}
MarkerSeen ==
    IF ~Alive THEN {"error"} ELSE IF login.blank THEN {"absent"} ELSE Marker

\* The driver get_driver gave back drives a Chrome that get_driver launched.
Blank(r) == r.constructed > 0 /\ r.w.browserOf[r.val] = r.val

\* WebDriverWait(driver, t).until(...): the element, TimeoutException, or the
\* exception of a lost session
WaitOutcomes == IF Alive THEN {"found", "timeout"} ELSE {"error"}

\* driver.find_elements(...): a list, empty or not
FindOutcomes == IF Alive THEN {"found", "none"} ELSE {"error"}

\* clear / send_keys / click / execute_script / get
DoOutcomes == IF Alive THEN {"ok", "error"} ELSE {"error"}

\* Faulty variant: a marker test that asks for a displayed element
presence_requires_displayed(m) == m = "shown"

\* EC.presence_of_element_located((By.NAME, "prompt")): the element is in the
\* page, displayed or not
presence_of_element_located(m) == m \in {"hidden", "shown"}

\* Faulty variant: an element that is found counts, displayed or not
marker_displayed_if_found(m) == m \in {"hidden", "shown"}

\* message_box and message_box[0].is_displayed()
marker_displayed(m) == m = "shown"

\* The flow moves on; the pool is not touched.
Go(l) ==
    /\ login' = l
    /\ UNCHANGED <<drivers, created, session, browserOf, running, portOwner,
                   ret, spark, chat, cli, jar>>

At(pc, l) == [l EXCEPT !.pc = pc]
\* an except clause took an exception and the flow goes on at pc
Caught(pc, l) == [l EXCEPT !.pc = pc, !.caught = TRUE]
Did(act, pc, l) == [l EXCEPT !.acts = Append(@, act), !.pc = pc]
Return(res, l) == [l EXCEPT !.result = res, !.pc = "done"]

\* ------------------------------------------------------ SparkAI._auto_login
\* Lines 206-214: without a username or a password, return False.
AutoLogin ==
    \E id \in BrowserIds, has_credentials \in BOOLEAN :
        /\ login.pc \in {"idle", "done"}
        /\ Go(IF has_credentials
              THEN [NoLogin EXCEPT !.pc = "al_get_driver", !.flow = "auto",
                                   !.browser_id = id]
              ELSE [NoLogin EXCEPT !.pc = "done", !.flow = "auto",
                                   !.browser_id = id, !.result = "False"])

\* Line 219: driver = self.chrome_manager.get_driver(self.browser_id); what it
\* raises is caught at line 229 and the login goes on.
AutoLogin_get_driver ==
    /\ login.pc = "al_get_driver"
    /\ \E in \in GetDriverInputs(World, login.browser_id, TRUE, FALSE) :
        \E r \in {get_driver(World, login.browser_id, FALSE, TRUE, FALSE, in[1], in[2])} :
            /\ Becomes(r.w)
            /\ ret' = RetOf("_auto_login", login.browser_id, FALSE, r)
            /\ login' = IF r.raised THEN At("al_login", login)
                        ELSE [login EXCEPT !.driver = r.val, !.pc = "al_check",
                                           !.blank = Blank(r)]
            /\ UNCHANGED <<spark, chat, cli, jar>>

\* Lines 223-230: the element named "prompt" is found and displayed: return
\* True; otherwise, and on an exception, go on to login_to_spark.
AutoLogin_check ==
    /\ login.pc = "al_check"
    /\ \E m \in MarkerSeen :
          Go(IF m = "error" THEN At("al_login", login)
             ELSE IF marker_displayed(m)
             THEN Return("True", [login EXCEPT !.seen_auto = m])
             ELSE At("al_login", [login EXCEPT !.seen_auto = m]))

\* Lines 236-245: login_to_spark(self.chrome_manager.get_driver(...), ...);
\* an exception of get_driver is caught at line 243: return False.
AutoLogin_login ==
    /\ login.pc = "al_login"
    /\ \E in \in GetDriverInputs(World, login.browser_id, TRUE, FALSE) :
        \E r \in {get_driver(World, login.browser_id, FALSE, TRUE, FALSE, in[1], in[2])} :
            /\ Becomes(r.w)
            /\ ret' = RetOf("_auto_login", login.browser_id, FALSE, r)
            /\ login' = IF r.raised THEN Return("False", login)
                        ELSE [login EXCEPT !.driver = r.val, !.pc = "lt_get",
                                           !.blank = IF r.constructed > 0
                                                     THEN Blank(r) ELSE @]
            /\ UNCHANGED <<spark, chat, cli, jar>>

\* ------------------------------------------- ChromeManager.login_to_spark
\* driver = self.get_driver(browser_id); perform_login(driver, ...).  What
\* get_driver raises reaches the caller.
ManagerLogin ==
    /\ login.pc \in {"idle", "done"}
    /\ \E id \in BrowserIds :
        \E in \in GetDriverInputs(World, id, TRUE, FALSE) :
          \E r \in {get_driver(World, id, FALSE, TRUE, FALSE, in[1], in[2])} :
            /\ Becomes(r.w)
            /\ ret' = RetOf("login_to_spark", id, FALSE, r)
            /\ login' = IF r.raised
                        THEN [NoLogin EXCEPT !.pc = "done", !.flow = "manager",
                                             !.browser_id = id, !.result = "raised"]
                        ELSE [NoLogin EXCEPT !.pc = "lt_get", !.flow = "manager",
                                             !.browser_id = id, !.driver = r.val,
                                             !.blank = Blank(r)]
            /\ UNCHANGED <<spark, chat, cli, jar>>

\* ------------------------------------------------ auth_utils.login_to_spark
\* Line 43: driver.get("https://spark.unimelb.edu.au/securechat")
login_to_spark_get ==
    /\ login.pc = "lt_get"
    /\ \E o \in DoOutcomes :
          Go(IF o = "ok"
             THEN [login EXCEPT !.pc = "lt_entry", !.blank = FALSE,
                                !.entered = TRUE]
             ELSE Caught("lt_except", [login EXCEPT !.entered = TRUE]))

\* Lines 46-53: WebDriverWait(driver, 5) for the element named "prompt":
\* return True; on TimeoutException go on to the form.
login_to_spark_entry ==
    /\ login.pc = "lt_entry"
    /\ \E m \in MarkerSeen :
          Go(IF m = "error" THEN Caught("lt_except", login)
             ELSE IF presence_of_element_located(m)
             THEN Return("True", [login EXCEPT !.seen_entry = m])
             ELSE Caught("lt_identifier", [login EXCEPT !.seen_entry = m]))

\* Faulty variant: no except clause around the form, the exception of a wait
\* or of a click leaves login_to_spark
FormStep_uncaught(act, next, w, d) ==
    IF w = "found" /\ d = "ok" THEN Did(act, next, login)
    ELSE Return("raised", login)

\* One step of the form of lines 56-91: wait for the element, then fill or
\* click it; any exception (the timeout of the wait included) leads to the
\* generic form of lines 95-126.
FormStep(act, next, w, d) ==
    IF w = "found" /\ d = "ok" THEN Did(act, next, login)
    ELSE Caught("gen_user", login)

\* Lines 58-63: the field named "identifier"
login_to_spark_identifier ==
    /\ login.pc = "lt_identifier"
    /\ \E w \in WaitOutcomes, d \in DoOutcomes :
          Go(FormStep("fill_identifier", "lt_next", w, d))

\* Faulty variant: the Next button is not waited for and not clicked
login_to_spark_next_passed_over ==
    /\ login.pc = "lt_next"
    /\ \E w \in WaitOutcomes, d \in DoOutcomes :
          Go(At("lt_passcode", login))

\* Lines 66-73: the Next button
login_to_spark_next ==
    /\ login.pc = "lt_next"
    /\ \E w \in WaitOutcomes, d \in DoOutcomes :
          Go(FormStep("click_next", "lt_passcode", w, d))

\* Lines 76-82: the field named "credentials.passcode"
login_to_spark_passcode ==
    /\ login.pc = "lt_passcode"
    /\ \E w \in WaitOutcomes, d \in DoOutcomes :
          Go(FormStep("fill_passcode", "lt_verify", w, d))

\* Lines 85-94: the Verify button, then handle_duo_authentication
login_to_spark_verify ==
    /\ login.pc = "lt_verify"
    /\ \E w \in WaitOutcomes, d \in DoOutcomes :
          Go(FormStep("click_verify", "duo_detect", w, d))

\* Faulty variant: an exception in the generic form is taken by the outer
\* except clause of line 134, past the wait of line 129
GenericStep_skips_wait(act, next, f, d) ==
    IF f = "error" THEN Caught("lt_except", login)
    ELSE IF f = "none" THEN At(next, login)
    ELSE IF d = "ok" THEN Did(act, next, login)
    ELSE Caught("lt_except", login)

\* One step of the generic form of lines 98-126: find_elements, and fill or
\* click the first element found; an exception ends the generic form.
GenericStep(act, next, f, d) ==
    IF f = "error" THEN Caught("lt_final", login)
    ELSE IF f = "none" THEN At(next, login)
    ELSE IF d = "ok" THEN Did(act, next, login)
    ELSE Caught("lt_final", login)

\* Lines 100-104: any user name field
login_to_spark_generic_user ==
    /\ login.pc = "gen_user"
    /\ \E f \in FindOutcomes, d \in DoOutcomes :
          Go(GenericStep("fill_generic_user", "gen_password", f, d))

\* Lines 107-110: any password field
login_to_spark_generic_password ==
    /\ login.pc = "gen_password"
    /\ \E f \in FindOutcomes, d \in DoOutcomes :
          Go(GenericStep("fill_generic_password", "gen_button", f, d))

\* Lines 113-123: any login button
login_to_spark_generic_button ==
    /\ login.pc = "gen_button"
    /\ \E f \in FindOutcomes, d \in DoOutcomes :
          Go(GenericStep("click_generic_login", "lt_final", f, d))

\* Lines 129-133: wait max_wait_sec for the element named "prompt"
login_to_spark_final ==
    /\ login.pc = "lt_final"
    /\ \E m \in MarkerSeen :
          Go(IF m # "error" /\ presence_of_element_located(m)
             THEN Return("True", [login EXCEPT !.offered = @ \cup {"wait"}])
             ELSE Caught("lt_except",
                         [login EXCEPT !.offered = @ \cup {"wait"}]))

\* Lines 134-155: on the chat URL with an element named "prompt": True;
\* otherwise, and when current_url raises, False.
login_to_spark_except ==
    /\ login.pc = "lt_except"
    /\ \E m \in MarkerSeen, on_chat \in BOOLEAN :
          Go(IF m # "error" /\ on_chat /\ m # "absent"
             THEN Return("True", login)
             ELSE IF m = "error"
             THEN Return("False", [login EXCEPT !.caught = TRUE])
             ELSE Return("False", login))

\* --------------------------------------- auth_utils.handle_duo_authentication
\* Every exception in it is caught at line 257 (or 254): it returns, and
\* login_to_spark goes on at line 128.
\* Lines 170-185: the authenticator list is there, or appears within 3 s.
handle_duo_detect ==
    /\ login.pc = "duo_detect"
    /\ \E f \in FindOutcomes, w \in WaitOutcomes :
          Go(IF f = "found" \/ (f = "none" /\ w = "found")
             THEN At("duo_select", login)
             ELSE Caught("lt_final", login))

\* Faulty variant: the first button of the other methods is taken even when
\* there is a push button
duo_choice_never_push(push, auth) ==
    IF push = "found" \/ auth = "found" THEN "auth_buttons[0]"
    ELSE "none"

\* Lines 196-209: the element .click() is called on: the first push button
\* when the list of push buttons is not empty, else the first button of the
\* other methods, else none.
duo_choice(push, auth) ==
    IF push = "found" THEN "push_buttons[0]"
    ELSE IF auth = "found" THEN "auth_buttons[0]"
    ELSE "none"

\* Lines 191-219: the push buttons are looked for, and the buttons of the
\* other methods only when there is no push button; the chosen button is
\* clicked; without any, the message "No authentication methods found" and
\* return.  login.seen_push and login.seen_auth keep what the searches gave,
\* login.chosen the element chosen.
handle_duo_select ==
    /\ login.pc = "duo_select"
    /\ \E push \in FindOutcomes, d \in DoOutcomes :
        \E auth \in IF push = "none" THEN FindOutcomes ELSE {"unsought"} :
        \E l \in {[login EXCEPT !.seen_push = push, !.seen_auth = auth,
                                !.chosen = IF "error" \in {push, auth} THEN "none"
                                           ELSE duo_choice(push, auth)]} :
          Go(IF "error" \in {push, auth}
             THEN Caught("lt_final", l)
             ELSE IF l.chosen = "push_buttons[0]"
             THEN (IF d = "ok" THEN Did("click_push", "duo_wait", l)
                   ELSE Caught("lt_final", l))
             ELSE IF l.chosen = "auth_buttons[0]"
             THEN (IF d = "ok" THEN Did("click_auth", "duo_wait", l)
                   ELSE Caught("lt_final", l))
             ELSE At("lt_final", [l EXCEPT !.offered = {"message"}]))

\* Faulty variant: after the timeout the flow returns without looking for
\* another way to verify
handle_duo_wait_gives_up ==
    /\ login.pc = "duo_wait"
    /\ \E m \in MarkerSeen :
          Go(IF m = "absent"
             THEN Caught("lt_final", [login EXCEPT !.timed_out = TRUE])
             ELSE IF m = "error" THEN Caught("lt_final", login)
             ELSE At("lt_final", login))

\* Lines 222-229: wait max_wait_sec for the element named "prompt"; the
\* TimeoutException is taken at line 227 (login.timed_out), another exception
\* at line 257.
handle_duo_wait ==
    /\ login.pc = "duo_wait"
    /\ \E m \in MarkerSeen :
          Go(IF m = "absent"
             THEN Caught("duo_other", [login EXCEPT !.timed_out = TRUE])
             ELSE IF m = "error" THEN Caught("lt_final", login)
             ELSE At("lt_final", login))

\* Lines 231-239: the links "Choose another way to verify" are looked for
\* (login.seen_other) and the first one clicked (login.switched: .click() was
\* called on it); an exception is taken at line 254.
handle_duo_other ==
    /\ login.pc = "duo_other"
    /\ \E f \in FindOutcomes, d \in DoOutcomes :
        \E l \in {[login EXCEPT !.seen_other = f, !.switched = (f = "found")]} :
          Go(IF f = "found" /\ d = "ok" THEN Did("click_other", "duo_alt", l)
             ELSE IF f = "none" THEN At("lt_final", l)
             ELSE Caught("lt_final", l))

\* Lines 242-253: with more than one method listed, the second one, and one
\* more wait for the element named "prompt"
handle_duo_alt ==
    /\ login.pc = "duo_alt"
    /\ \E n \in 0..2, d \in DoOutcomes :
          Go(IF Alive /\ n > 1 /\ d = "ok" THEN Did("click_alt", "lt_final", login)
             ELSE IF Alive /\ n <= 1 THEN At("lt_final", login)
             ELSE Caught("lt_final", login))

\* ====================================================================
\* Typing a message: ChromeManager.send_message_to_spark (lines 803-853) and
\* SparkAI._send_message
\* ====================================================================
\* A message is a string, here a sequence of characters; LF is "\n".
LF == "LF"
Chars == {"x", LF}
Messages == UNION {[1..n -> Chars] : n \in 0..MaxLen}

\* message.split("\n"): the pieces between the line feeds, empty ones kept;
\* a message without a line feed is one line, the empty message one empty line.
RECURSIVE split(_)
split(message) ==
    IF message = <<>> THEN << <<>> >>
    ELSE LET rest == split(Tail(message))
         IN  IF Head(message) = LF THEN << <<>> >> \o rest
             ELSE << <<Head(message)>> \o Head(rest) >> \o Tail(rest)

\* Faulty variant: the loop runs over every line, the first one included
chain_keys_every_line(lines) ==
    [i \in 1..Len(lines) |-> <<"shift_enter_then", lines[i]>>]

\* for line in lines[1:]: one ActionChains of key_down(SHIFT), ENTER,
\* key_up(SHIFT), send_keys(line), performed as a whole
chain_keys(lines) ==
    [i \in 1..(Len(lines) - 1) |-> <<"shift_enter_then", lines[i + 1]>>]

\* What the driver is asked to do for a message when nothing raises:
\* message_box.clear(), message_box.send_keys(lines[0]), the chains, and
\* send_button.click().
type_keys(message) ==
    LET lines == split(message)
    IN  << <<"clear">>, <<"send_keys", lines[1]>> >> \o chain_keys(lines)
           \o << <<"click_send">> >>

\* The calls that were made when the k+1st raised (k = 0: the wait for the
\* element named "prompt" raised); every call when none did.
typed(message, k) == SubSeq(type_keys(message), 1, k)

\* How many calls go through: all of them, or fewer when one raises; none on
\* a driver whose session is gone, none on a page that was never loaded.
TypeOutcomes(w, d, blank, message) ==
    IF Answers(w, d) /\ ~blank THEN 0..Len(type_keys(message)) ELSE {0}

\* ====================================================================
\* SparkAI.send_message, with ChromeManager.send_message_to_spark,
\* is_logged_in_to_spark and get_response_from_spark
\* ====================================================================
\* chat.pc is the place of the call; chat.log the steps that matter for the
\* order of things (the URL was read, a login was run, the operator was asked,
\* text was typed); chat.keys what the last typing asked of the driver;
\* chat.check the call of is_logged_in_to_spark in progress or last made;
\* chat.completion what the wait for the end of the answer saw, and
\* chat.timeout_sec the seconds it was given; chat.tried the extraction
\* strategies that ran with what each gave; chat.source the one whose text is
\* returned; chat.result what send_message returns.  chat.blank says that
\* the driver was launched during the call and has loaded no page yet.

ChatAlive == Answers(World, chat.driver)

\* The call moves on; the pool is not touched.
ChatGo(c) ==
    /\ chat' = c
    /\ UNCHANGED <<drivers, created, session, browserOf, running, portOwner,
                   ret, spark, login, cli, jar>>

Logged(e, c) == [c EXCEPT !.log = Append(@, e)]

\* debug_print(f"...{value}"): the line is printed when SPARKAI_DEBUG is set.
\* A line is kept as its fixed text and the name of the variable whose value
\* the f-string puts after it, "none" when it puts no variable there.  The
\* lines kept are those that name a variable read from the credentials; the
\* others print fixed texts and the texts of exceptions.
debug_print(text, shows, c) ==
    IF cli.debug THEN [c EXCEPT !.out = Append(@, [text |-> text, shows |-> shows])]
    ELSE c

\* get_driver gave r: the call goes on with the driver it returned.
Got(r, c) ==
    IF r.raised THEN c
    ELSE [c EXCEPT !.driver = r.val,
                   !.blank = IF r.constructed > 0 THEN Blank(r) ELSE @]

\* driver.get(url) was called: a page is loaded.
Loaded(c) == [c EXCEPT !.blank = FALSE]

\* chat.page, the address the browser is at: "kept" while the call has not
\* sent it anywhere, "thread" after navigate_to of
\* _determine_sparkai_url(self.chat_id) (SparkAI.py line 309), "root" after
\* driver.get("https://spark.unimelb.edu.au/securechat") of login_to_spark
\* (auth_utils.py line 43), "relogged" after _auto_login, which leaves the
\* page alone when the prompt field is displayed and calls login_to_spark
\* when not.
Navigated(page, c) == [Loaded(c) EXCEPT !.page = page]
ChatAt(pc, c) == [c EXCEPT !.pc = pc]

\* The browser id of the SparkAI object that sends.
ChatIds == {"a"}

\* The message of the calls that go through the pool.
SendText == <<"x", LF, "x">>

\* response_timeout as the SparkAI object was built with
ResponseTimeouts == {default_timeout_sec, default_response_timeout}

\* driver.current_url as send_message reads it: the chat page, a login or SSO
\* page of the site, a page off the site; it raises on a lost session.
UrlSeen ==
    IF ~ChatAlive THEN {"error"}
    ELSE IF chat.blank THEN {"offsite"} ELSE {"chat", "sso", "offsite"}

\* the element named "prompt" as is_logged_in_to_spark finds it
PromptSeen ==
    IF ~ChatAlive THEN {"error"} ELSE IF chat.blank THEN {"absent"} ELSE Marker

\* ------------------------------------------------- SparkAI.send_message
\* Lines 294-296: driver = self.chrome_manager.get_driver(self.browser_id);
\* what it raises is caught at line 320 and the message is sent all the same.
SendMessage ==
    /\ chat.pc \in {"idle", "done"}
    /\ \E id \in ChatIds, creds \in BOOLEAN, env_creds \in BOOLEAN,
          response_timeout \in ResponseTimeouts :
        \E in \in GetDriverInputs(World, id, TRUE, FALSE) :
          \E r \in {get_driver(World, id, FALSE, TRUE, FALSE, in[1], in[2])} :
            /\ Becomes(r.w)
            /\ chat' = Got(r, [NoChat EXCEPT
                          !.id = id, !.creds = creds, !.env_creds = env_creds,
                          !.response_timeout = response_timeout,
                          !.message = SendText,
                          !.pc = IF r.raised THEN "mts_get_driver" ELSE "sm_url"])
            /\ UNCHANGED <<ret, spark, login, cli, jar>>

\* Faulty variant: only the login and SSO pages count, a page off the site
\* does not
needs_authentication_on_site_only(url) == url = "sso"

\* "login" / "authorize" / "sso" / "authenticate" in the URL, or the URL not
\* on https://spark.unimelb.edu.au
needs_authentication(url) == url \in {"sso", "offsite"}

\* Lines 297-307: current_url = driver.current_url and the test on it; an
\* exception is caught at line 320.
send_message_url ==
    /\ chat.pc = "sm_url"
    /\ \E url \in UrlSeen :
          ChatGo(IF url = "error" THEN ChatAt("mts_get_driver", chat)
                 ELSE Logged("inspect_url",
                        [chat EXCEPT !.url = url,
                                     !.pc = IF needs_authentication(url)
                                            THEN "sm_navigate"
                                            ELSE "mts_get_driver"]))

\* Line 308 and ChromeManager.navigate_to: get_driver, then driver.get(url),
\* whose exception navigate_to catches; an exception of get_driver is caught
\* at line 320 of send_message and the login is skipped.
send_message_navigate ==
    /\ chat.pc = "sm_navigate"
    /\ \E in \in GetDriverInputs(World, chat.id, TRUE, FALSE) :
          \E r \in {get_driver(World, chat.id, FALSE, TRUE, FALSE, in[1], in[2])} :
            /\ Becomes(r.w)
            /\ chat' = IF r.raised
                       THEN Logged("navigate_raised", ChatAt("mts_get_driver", chat))
                       ELSE Navigated("thread", Got(r, ChatAt("sm_reauth", chat)))
            /\ UNCHANGED <<ret, spark, login, cli, jar>>

\* Lines 311-314: with a username and a password, self._auto_login(...); it
\* asks the pool for the driver and returns True or False.
send_message_auto_login ==
    /\ chat.pc = "sm_reauth"
    /\ chat.creds
    /\ \E in \in GetDriverInputs(World, chat.id, TRUE, FALSE) :
          \E r \in {get_driver(World, chat.id, FALSE, TRUE, FALSE, in[1], in[2])} :
            /\ Becomes(r.w)
            /\ chat' = Logged("auto_login",
                          IF r.raised THEN ChatAt("mts_get_driver", chat)
                          ELSE Navigated("relogged",
                                         Got(r, ChatAt("mts_get_driver", chat))))
            /\ UNCHANGED <<ret, spark, login, cli, jar>>

\* Lines 315-318: without them, input("Please log in manually ..."), which
\* returns when the operator presses Enter.
send_message_manual ==
    /\ chat.pc = "sm_reauth"
    /\ ~chat.creds
    /\ ChatGo(Logged("manual_prompt", ChatAt("sm_manual", chat)))

\* Line 318: the operator presses Enter, or the standard input is at its end
\* and input() raises EOFError, caught at line 320.  No clock ends the wait.
OperatorEnter ==
    /\ chat.pc = "sm_manual"
    /\ \E signal \in {"enter", "eof"} :
          ChatGo(Logged(signal, ChatAt("mts_get_driver", chat)))


\* ------------------------------------- ChromeManager.send_message_to_spark
\* Lines 780-795: driver = self.get_driver(browser_id), whose exception reaches
\* send_message (line 342); with a username and a password in the
\* environment, debug_print(f"Attempting auto-login with username={username}")
\* and login_to_spark(driver, ...), which returns True or False.
send_message_to_spark_get_driver ==
    /\ chat.pc = "mts_get_driver"
    /\ \E in \in GetDriverInputs(World, chat.id, TRUE, FALSE) :
          \E r \in {get_driver(World, chat.id, FALSE, TRUE, FALSE, in[1], in[2])} :
            /\ Becomes(r.w)
            /\ chat' = IF r.raised THEN ChatAt("fb_send", chat)
                       ELSE LET c == Got(r, [chat EXCEPT
                                        !.pc = "il_get_driver",
                                        !.check = [NoCheck EXCEPT !.caller = "send"]])
                            IN  IF chat.env_creds
                                THEN debug_print(
                                         "Attempting auto-login with username=",
                                         "username",
                                         Logged("login_to_spark",
                                                Navigated("root", c)))
                                ELSE c
            /\ UNCHANGED <<ret, spark, login, cli, jar>>

\* ------------------------------------- ChromeManager.is_logged_in_to_spark
\* get_response_from_spark returns to its caller: to send_message at line
\* 333, which goes on to get_current_chat_id, or to the program that called
\* it on the manager.
Responded(c) ==
    [c EXCEPT !.pc = IF c.calls > 0 THEN "done" ELSE "sm_chat_id"]

\* An exception of get_driver leaves get_response_from_spark or
\* is_logged_in_to_spark: send_message takes it at line 342 and falls back,
\* a program that called the manager itself gets it.
Propagated(c) ==
    IF c.calls > 0 THEN [c EXCEPT !.result = "raised", !.text = "none",
                                  !.pc = "done"]
    ELSE ChatAt("fb_send", c)

\* What the caller does with the answer.  send_message_to_spark (lines
\* 797-801): False is returned as its own False, and send_message raises
\* (line 328); get_response_from_spark (lines 876-878): False gives None,
\* which send_message returns.
CheckReturn(res, timed_out, c) ==
    LET c2 == [c EXCEPT !.check.result = res, !.check.timed_out = timed_out,
                        !.check.polls = 0, !.check.login_form_filled = FALSE,
                        !.check.fills = 0]
    IN  IF c.check.caller = "send"
        THEN IF res = "True" THEN ChatAt("mts_type", c2)
             ELSE [c2 EXCEPT !.sent = "False", !.pc = "fb_send"]
        ELSE IF res = "True" THEN ChatAt("grs_wait", c2)
             ELSE Responded([c2 EXCEPT !.result = "None", !.text = "none"])

\* Lines 634-636: driver = self.get_driver(browser_id), outside every try:
\* what it raises reaches send_message (line 342).
is_logged_in_to_spark_get_driver ==
    /\ chat.pc = "il_get_driver"
    /\ \E in \in GetDriverInputs(World, chat.id, TRUE, FALSE) :
          \E r \in {get_driver(World, chat.id, FALSE, TRUE, FALSE, in[1], in[2])} :
            /\ Becomes(r.w)
            /\ chat' = IF r.raised THEN Propagated(chat)
                       ELSE Got(r, ChatAt("il_first", chat))
            /\ UNCHANGED <<ret, spark, login, cli, jar>>

\* Lines 642-650: the element named "prompt" is found and displayed: True;
\* anything else, an exception included, leads to the loop.
is_logged_in_to_spark_first ==
    /\ chat.pc = "il_first"
    /\ \E m \in PromptSeen :
          ChatGo(IF m # "error" /\ marker_displayed(m)
                 THEN CheckReturn("True", FALSE,
                          [chat EXCEPT !.check.displayed = (m = "shown")])
                 ELSE ChatAt("il_poll", chat))

\* Faulty variant: the login form is filled whether or not the environment
\* holds a username and a password
fill_login_form_always(ck, env_creds, clicked) ==
    [ck EXCEPT !.filled = TRUE, !.login_form_filled = clicked,
               !.fills = @ + 1]

\* Lines 685-719: a login form is on the page and login_form_filled is not
\* set.  With a username and a password in the environment the fields are
\* filled, and login_form_filled is set when the login button was clicked;
\* without them the operator is told once to log in by hand.  fills counts
\* the times the call typed the credentials.
fill_login_form(ck, env_creds, clicked) ==
    IF env_creds THEN [ck EXCEPT !.filled = TRUE, !.login_form_filled = clicked,
                                 !.fills = @ + 1]
    ELSE [ck EXCEPT !.login_form_filled = TRUE]

\* Faulty variant: a loop whose clock starts again before the time is over
elapsed_restarting(polls) == (polls + 1) % MaxPolls

\* time.time() - start_time after one more turn of the loop, counted in turns:
\* every turn takes time (the one-second wait of line 667, the sleep of line
\* 729), and max_wait_sec is over after MaxPolls of them.
elapsed(polls) == polls + 1

\* Lines 664-729: one turn of "while time.time() - start_time < max_wait_sec":
\* a wait of one second for the element named "prompt"; displayed: True; on
\* TimeoutException the login form is looked for and handled; another
\* exception is caught at line 761: False.
is_logged_in_to_spark_poll ==
    /\ chat.pc = "il_poll"
    /\ chat.check.polls < MaxPolls
    /\ \E m \in PromptSeen, form \in BOOLEAN, clicked \in BOOLEAN :
          ChatGo(IF m = "error" THEN CheckReturn("False", FALSE, chat)
                 ELSE IF marker_displayed(m)
                 THEN CheckReturn("True", FALSE,
                          [chat EXCEPT !.check.displayed = (m = "shown")])
                 ELSE LET ck == [chat.check EXCEPT !.polls = elapsed(@)]
                      IN  [chat EXCEPT !.check =
                             IF m = "absent" /\ form /\ ~ck.login_form_filled
                             THEN fill_login_form(ck, chat.env_creds, clicked)
                             ELSE ck])

\* Lines 731-763: max_wait_sec is over.  True when the URL is the chat page's
\* and the page source holds a text area; otherwise, and on an exception,
\* False.
is_logged_in_to_spark_timeout ==
    /\ chat.pc = "il_poll"
    /\ chat.check.polls = MaxPolls
    /\ \E looks_like_chat \in BOOLEAN :
          ChatGo(IF ChatAlive /\ ~chat.blank /\ looks_like_chat
                 THEN CheckReturn("True", TRUE,
                          [chat EXCEPT !.check.looks = TRUE])
                 ELSE CheckReturn("False", TRUE, chat))

\* Faulty variant: the typing does not wait for the message box
message_box_unawaited(m, ks) == ks

\* Lines 805-808 of send_message_to_spark and 515-518 of _send_message:
\* WebDriverWait(driver, 8).until(presence of the element named "prompt"),
\* then message_box.clear().  m is the element as the page has it; ks the
\* numbers of calls that can go through.  The wait raises when the element is
\* absent, clear() raises on an element that is not displayed: nothing is
\* typed then.
message_box(m, ks) == IF m = "shown" THEN ks ELSE {0}

\* chat.box: the element the typing went into, "none" when nothing was typed.
Typing(m, k, c) ==
    [c EXCEPT !.keys = typed(c.message, k),
              !.box = IF k >= 1 THEN m ELSE "none"]

\* Lines 803-853 of send_message_to_spark: the message is typed; True when
\* every call went through, False when one raised.
send_message_to_spark_type ==
    /\ chat.pc = "mts_type"
    /\ \E m \in Marker :
       \E k \in message_box(m, TypeOutcomes(World, chat.driver, chat.blank,
                                            chat.message)) :
          ChatGo(LET c == Typing(m, k, chat)
                 IN  IF k = Len(type_keys(chat.message))
                     THEN Logged("type", [c EXCEPT !.sent = "True",
                                                   !.pc = "grs_get_driver"])
                     ELSE IF k >= 2
                     THEN Logged("type", [c EXCEPT !.sent = "False",
                                                   !.pc = "fb_send"])
                     ELSE [c EXCEPT !.sent = "False", !.pc = "fb_send"])


\* ----------------------------------- ChromeManager.get_response_from_spark
\* send_message line 333 calls get_response_from_spark(self.browser_id): no
\* timeout is passed, timeout_sec is its default.  Lines 870-873:
\* driver = self.get_driver(browser_id), whose exception reaches send_message
\* (line 342); then is_logged_in_to_spark(browser_id).
get_response_from_spark_get_driver ==
    /\ chat.pc = "grs_get_driver"
    /\ \E in \in GetDriverInputs(World, chat.id, TRUE, FALSE) :
          \E r \in {get_driver(World, chat.id, FALSE, TRUE, FALSE, in[1], in[2])} :
            /\ Becomes(r.w)
            /\ chat' = IF r.raised THEN Propagated(chat)
                       ELSE Got(r, [chat EXCEPT
                               !.pc = "il_get_driver",
                               !.timeout_sec = default_timeout_sec,
                               !.check = [NoCheck EXCEPT !.caller = "response"]])
            /\ UNCHANGED <<ret, spark, login, cli, jar>>

\* WebDriverWait(driver, timeout_sec).until_not(the loading animation is
\* present): the animation went away, TimeoutException, or the exception of
\* a lost session.  An animation that went away does not come back before
\* the next message, and an answer once read to its end stays as it is.
AnswerComplete ==
    chat.completion = "cleared" \/ chat.text = "full" \/ chat.prev = "full"
CompletionSeen ==
    IF ~ChatAlive THEN {"error"}
    ELSE IF AnswerComplete THEN {"cleared"}
    ELSE {"cleared", "timeout"}

\* Lines 881-904: the wait for the loading animation to go away; the bare
\* except of line 900 takes the TimeoutException and every other exception,
\* and the extraction follows in each case.
get_response_from_spark_wait ==
    /\ chat.pc = "grs_wait"
    /\ \E seen \in CompletionSeen :
          ChatGo([chat EXCEPT !.completion = seen, !.pc = "grs_extract"])

\* What one extraction strategy gives: text, or nothing (an empty string, no
\* element, an exception that its except clause takes)
Yield == {"text", "nothing"}

\* What the page gives to the extraction: to each strategy its yield, the copy
\* buttons found or not (or find_elements raising), the click going through
\* or not.  in_page_clipboard is self.get_clipboard_contents(driver), a method
\* ChromeManager does not define: the call raises AttributeError.
PageYields ==
    IF ChatAlive /\ ~chat.blank
    THEN [dom_text : Yield, buttons : {"found", "none", "error"},
          click : {"ok", "error"}, os_clipboard : Yield,
          in_page_clipboard : {"nothing"}, dom_script : Yield, raw_text : Yield]
    ELSE [dom_text : {"nothing"}, buttons : {"error"}, click : {"error"},
          os_clipboard : {"nothing"}, in_page_clipboard : {"nothing"},
          dom_script : {"nothing"}, raw_text : {"nothing"}]

\* A strategy ran and gave y.
Tried(t, strategy, y) == Append(t, [strategy |-> strategy, yield |-> y])
Extracted(t, source) == [tried |-> t, source |-> source]

\* Faulty variant: the last strategy returns what it read, empty or not
raw_text_as_read(t, o) ==
    Extracted(Tried(t, "raw_text", o.raw_text), "raw_text")

\* Lines 981-999: the text of the last message that is not the user's; then
\* the notice "Could not retrieve response from Spark. ..." as the answer.
raw_text(t, o) ==
    LET t2 == Tried(t, "raw_text", o.raw_text)
    IN  IF o.raw_text = "text" THEN Extracted(t2, "raw_text")
        ELSE Extracted(t2, "notice")

\* Lines 962-978: innerText of the last answer, by script
dom_script(t, o) ==
    LET t2 == Tried(t, "dom_script", o.dom_script)
    IN  IF o.dom_script = "text" THEN Extracted(t2, "dom_script")
        ELSE raw_text(t2, o)

\* Lines 955-961: self.get_clipboard_contents(driver); the exception is taken
\* at line 960
in_page_clipboard(t, o) ==
    LET t2 == Tried(t, "in_page_clipboard", o.in_page_clipboard)
    IN  IF o.in_page_clipboard = "text" THEN Extracted(t2, "in_page_clipboard")
        ELSE dom_script(t2, o)

\* Faulty variant: the text of the clipboard is kept and the cascade goes on
os_clipboard_goes_on(t, o) ==
    LET t2 == Tried(t, "os_clipboard", o.os_clipboard)
        rest == in_page_clipboard(t2, o)
    IN  IF o.os_clipboard = "text" THEN Extracted(rest.tried, "os_clipboard")
        ELSE rest

\* Lines 941-953: the last copy button is clicked and pyperclip.paste() read
os_clipboard(t, o) ==
    LET t2 == Tried(t, "os_clipboard", o.os_clipboard)
    IN  IF o.os_clipboard = "text" THEN Extracted(t2, "os_clipboard")
        ELSE in_page_clipboard(t2, o)

\* Lines 919-945: the copy buttons are looked for; find_elements raising is
\* taken at line 979, past the script; without a button, or when the click
\* raises (line 960), the script is next.
copy_buttons(t, o) ==
    IF o.buttons = "error" THEN raw_text(t, o)
    ELSE IF o.buttons = "none" \/ o.click = "error" THEN dom_script(t, o)
    ELSE os_clipboard(t, o)

\* Faulty variant: the copy button and the clipboard come first
extract_clipboard_first(o) ==
    IF o.buttons = "found" /\ o.click = "ok" /\ o.os_clipboard = "text"
    THEN Extracted(Tried(<<>>, "os_clipboard", "text"), "os_clipboard")
    ELSE LET t == Tried(<<>>, "dom_text", o.dom_text)
         IN  IF o.dom_text = "text" THEN Extracted(t, "dom_text")
             ELSE copy_buttons(t, o)

\* Lines 906-999: the text of the last answer's content element first, then
\* the rest of the cascade; each strategy that gives text returns it.
extract(o) ==
    LET t == Tried(<<>>, "dom_text", o.dom_text)
    IN  IF o.dom_text = "text" THEN Extracted(t, "dom_text")
        ELSE copy_buttons(t, o)

\* The text a strategy reads is the answer as it stands: all of it once
\* the animation went away, what was generated so far (or all of it, when
\* the answer ends during the sleep of line 904) after a wait that timed out.
AnswerRead == IF AnswerComplete THEN {"full"} ELSE {"partial", "full"}

\* The page as another call finds it: the same elements answer the same
\* strategies as in the call before, as long as the same page is shown.
SamePage(o) ==
    (chat.calls > 0 /\ ChatAlive /\ ~chat.blank) => extract(o).tried = chat.tried

\* Lines 919-939: initial_copy_buttons and copy_buttons are two find_elements
\* in a row, both after the wait for the answer; they are reached when the
\* text of the page gave nothing and the search does not raise.  The number
\* is counted from the one the page showed when the message was sent: one
\* button more once the answer is complete, none more before that or on a
\* page that shows no button, -1 when the buttons were not counted.
initial_copy_buttons(o, read) ==
    IF o.dom_text = "text" \/ o.buttons = "error" THEN -1
    ELSE IF o.buttons = "none" THEN 0
    ELSE IF read = "full" THEN 1 ELSE 0

get_response_from_spark_extract ==
    /\ chat.pc = "grs_extract"
    /\ \E o \in PageYields, read \in AnswerRead :
        /\ SamePage(o)
        /\ \E e \in {extract(o)} :
             ChatGo(Responded([chat EXCEPT
                       !.baseline = initial_copy_buttons(o, read),
                       !.tried = e.tried, !.source = e.source,
                       !.result = IF e.source = "notice" THEN "notice" ELSE "text",
                       !.text = IF e.source = "notice" THEN "none" ELSE read]))

\* get_response_from_spark(browser_id) is called once more on the manager,
\* after a send_message whose message was typed and whose response was
\* extracted, and before another message is sent.
GetResponseAgain ==
    /\ chat.pc = "done" /\ chat.sent = "True" /\ chat.tried # <<>>
    /\ chat.calls < MaxRepeats
    /\ ChatGo([chat EXCEPT !.pc = "grs_get_driver", !.calls = @ + 1,
                           !.prev = chat.text])

\* --------------------------------------------- SparkAI.send_message, the end
\* Lines 336-341: self.get_current_chat_id(), which asks the pool for the
\* driver and takes every exception; then the response is returned.
send_message_return ==
    /\ chat.pc = "sm_chat_id"
    /\ \E in \in GetDriverInputs(World, chat.id, TRUE, FALSE) :
          \E r \in {get_driver(World, chat.id, FALSE, TRUE, FALSE, in[1], in[2])} :
            /\ Becomes(r.w)
            /\ chat' = Got(r, ChatAt("done", chat))
            /\ UNCHANGED <<ret, spark, login, cli, jar>>

\* Lines 342-349, the fallback: SparkAI._send_message(message) types the
\* message again on self.driver (the pool's get_driver) and takes every
\* exception.
_send_message ==
    /\ chat.pc = "fb_send"
    /\ \E in \in GetDriverInputs(World, chat.id, TRUE, FALSE) :
          \E r \in {get_driver(World, chat.id, FALSE, TRUE, FALSE, in[1], in[2])} :
            /\ Becomes(r.w)
            /\ \E c \in {Got(r, ChatAt("fb_response", chat))} :
                 \E m \in Marker :
                  \E k \in IF r.raised THEN {0}
                          ELSE message_box(m, TypeOutcomes(r.w, c.driver,
                                                c.blank, chat.message)) :
                    chat' = IF k >= 2
                            THEN Logged("type", Typing(m, k, c))
                            ELSE Typing(m, k, c)
            /\ UNCHANGED <<ret, spark, login, cli, jar>>

\* Lines 364-366: orig_count is read when the fallback starts, after
\* _send_message: counted from the number the page showed when the message
\* was sent, it is one more when the message went out and its answer is
\* already complete; -1 when the search raised.
orig_count(raised, keys) ==
    IF raised THEN {-1}
    ELSE IF keys # <<>> /\ keys[Len(keys)] = <<"click_send">> THEN {0, 1}
    ELSE {0}

\* Faulty variant: the fallback gives the browser up when it has no response
_get_llm_response_from_copy_button_quits ==
    /\ chat.pc = "fb_response"
    /\ \E in \in GetDriverInputs(World, chat.id, TRUE, FALSE) :
          \E r \in {get_driver(World, chat.id, FALSE, TRUE, FALSE, in[1], in[2])} :
            /\ r.w.created <= MaxHandles
            /\ Becomes(IF r.raised THEN r.w
                       ELSE DelDriver(Quit(r.w, r.val), chat.id))
            /\ \E n \in orig_count(r.raised, chat.keys) :
                 chat' = Got(r, [chat EXCEPT !.result = "error_text",
                                            !.baseline = n, !.pc = "done"])
            /\ UNCHANGED <<ret, spark, login, cli, jar>>

\* SparkAI._get_llm_response_from_copy_button: after its waits it reaches
\* "while not_copied:" (line 444), a name that is never bound; the NameError,
\* like every exception before it, is taken at line 486 and the string
\* "Error retrieving response: ..." is returned.
_get_llm_response_from_copy_button ==
    /\ chat.pc = "fb_response"
    /\ \E in \in GetDriverInputs(World, chat.id, TRUE, FALSE) :
          \E r \in {get_driver(World, chat.id, FALSE, TRUE, FALSE, in[1], in[2])} :
            /\ Becomes(r.w)
            /\ \E n \in orig_count(r.raised, chat.keys) :
                 chat' = Got(r, [chat EXCEPT !.result = "error_text",
                                            !.baseline = n, !.pc = "done"])
            /\ UNCHANGED <<ret, spark, login, cli, jar>>

\* ====================================================================
\* The command line: main of SparkAI.py (the console script "sparkai") and
\* main of the script src/main.py
\* ====================================================================
\* What a command line carries: a message, none, or the word "__debug"
CliMessages == {"given", "none", "__debug"}

\* The rest of the state is left as it is by a step of the command line.
CliGo(c) ==
    /\ cli' = c
    /\ UNCHANGED <<drivers, created, session, browserOf, running, portOwner,
                   ret, spark, login, chat, jar>>

\* SparkAI.main, lines 625-642: the arguments are read.  "__debug" calls
\* handle_debug_command(), a name defined nowhere: the NameError is raised
\* outside the try and ends the process with code 1.
main_parse_args ==
    /\ cli.pc = "none" /\ spark.phase = "none" /\ chat.pc = "idle"
    /\ \E message \in CliMessages, debug \in BOOLEAN :
         CliGo([NoCli EXCEPT
                  !.entry = "SparkAI.main", !.message = message,
                  !.debug = debug,
                  !.pc = IF message = "__debug" THEN "exited" ELSE "running",
                  !.exit = IF message = "__debug" THEN 1 ELSE -1])

\* Faulty variant: main closes the driver of the id before it returns
main_return_closing ==
    /\ cli.pc = "running" /\ cli.entry = "SparkAI.main"
    /\ \/ /\ spark.phase = "failed"
          /\ CliGo([cli EXCEPT !.pc = "exited", !.exit = 1])
       \/ /\ spark.phase = "ready"
          /\ \/ cli.message = "none" /\ chat.pc = "idle"
             \/ cli.message = "given" /\ chat.pc = "done"
          /\ \E r \in {close_driver(World, spark.browser_id, FALSE)} :
                /\ Becomes(r.w)
                /\ cli' = [cli EXCEPT !.pc = "exited", !.sent = chat.result,
                                      !.exit = 0]
                /\ UNCHANGED <<ret, spark, login, chat, jar>>

\* SparkAI.main, lines 644-674, after the constructor and the send_message
\* it called: what the constructor raises is taken at line 672 and 1 is
\* returned; otherwise the response is printed, release_driver is called and
\* 0 is returned, whether or not a message was given and whatever
\* send_message returned.
main_return ==
    /\ cli.pc = "running" /\ cli.entry = "SparkAI.main"
    /\ \/ /\ spark.phase = "failed"
          /\ CliGo([cli EXCEPT !.pc = "exited", !.exit = 1])
       \/ /\ spark.phase = "ready"
          /\ \/ cli.message = "none" /\ chat.pc = "idle"
             \/ cli.message = "given" /\ chat.pc = "done"
          /\ \E r \in {release_driver(World, spark.browser_id)} :
                /\ Becomes(r.w)
                /\ cli' = [cli EXCEPT !.pc = "exited", !.sent = chat.result,
                                      !.exit = 0]
                /\ UNCHANGED <<ret, spark, login, chat, jar>>

\* SparkAI.__init__ of src/main.py, lines 122-147, after the launch, as the
\* list of what it does with the cookie file and the page: _load_cookies when
\* a path was given and the file exists; driver.get of the chat address; the
\* five-second wait for the prompt field; on its timeout _auto_login when
\* credentials were given, which on any failure prints "Login failed" and asks
\* the operator (lines 279-282), else the prompt to the operator; then
\* _save_cookies whenever a path was given.  input() raises EOFError without
\* a terminal, which leaves the constructor.  authenticated tells whether the
\* page shows the prompt field when the constructor is left.
legacy_init(file, seen, creds, logged, operator) ==
    LET loaded == IF file = "present" THEN <<"load">> ELSE <<>>
        asked == seen = "timeout" /\ ~(creds /\ logged)
        entry == IF seen = "found" THEN <<"found">>
                 ELSE IF ~creds THEN <<"prompt">>
                 ELSE IF logged THEN <<"login_ok">>
                 ELSE <<"login_failed", "prompt">>
        raised == asked /\ operator = "eof"
        saved == IF file # "none" /\ ~raised THEN <<"save">> ELSE <<>>
    IN  [events |-> loaded \o <<"navigate">> \o entry \o saved,
         raised |-> raised,
         authenticated |-> IF asked THEN operator = "logs_in" ELSE TRUE]

\* main of src/main.py, lines 709-751: SparkAI(...) launches a Chrome of its
\* own with webdriver.Chrome (line 209), outside every try: what it raises
\* ends the process with code 1.  Without a message the script prints "No
\* message provided", closes the browser unless --keep-open, and returns.
\* With one, send_message is called; what it raises is printed (line 749).
legacy_main_send ==
    /\ cli.pc = "none" /\ spark.phase = "none" /\ chat.pc = "idle"
    /\ \E message \in {"given", "none"}, keep_open \in BOOLEAN,
          launch \in LaunchOutcome, outcome \in {"returned", "raised"},
          file \in {"none", "missing", "present"},
          seen \in {"found", "timeout"}, creds \in BOOLEAN,
          logged \in BOOLEAN, operator \in {"logs_in", "enter", "eof"} :
         \E c \in {[NoCli EXCEPT !.entry = "main.py", !.message = message,
                                 !.keep_open = keep_open,
                                 !.cookie_file = file]} :
           IF launch # "ok"
           THEN CliGo([c EXCEPT !.pc = "exited", !.exit = 1])
           ELSE \E w \in {Launched(World, NoId, FALSE)},
                   i \in {legacy_init(file, seen, creds, logged, operator)} :
                  \E d \in {[c EXCEPT !.driver = w.created,
                                      !.cookies = i.events,
                                      !.authenticated = i.authenticated]} :
                  /\ cli' = IF i.raised
                            THEN [d EXCEPT !.pc = "exited", !.exit = 1]
                            ELSE IF message = "none"
                            THEN [d EXCEPT !.pc = "exited", !.exit = 0]
                            ELSE [d EXCEPT !.sent = outcome, !.pc = "closing"]
                  /\ Becomes(IF ~i.raised /\ message = "none" /\ ~keep_open
                             THEN Quit(w, w.created) ELSE w)
                  /\ UNCHANGED <<ret, spark, login, chat, jar>>

\* main of src/main.py, lines 753-767: sparkai.close(), which is
\* self.driver.quit() (line 601), by default; with --keep-open the same once
\* the operator has pressed Ctrl+C.
legacy_main_close ==
    /\ cli.pc = "closing"
    /\ Becomes(Quit(World, cli.driver))
    /\ cli' = [cli EXCEPT !.pc = "exited", !.exit = 0]
    /\ UNCHANGED <<ret, spark, login, chat, jar>>

\* ------------------------------------------------------------ specification
Next ==
    \/ SetupChrome
    \/ GetDriver
    \/ CloseDriver
    \/ CloseAll
    \/ Close
    \/ ReleaseDriver
    \/ Attach
    \/ BrowserCrash
    \/ LaunchChromeForDebugging

\* The pool under the calls of ChromeManager.
Spec == Init /\ [][Next]_vars

SparkNext ==
    \/ SparkAI_new
    \/ SparkAI_init_attempt
    \/ SparkAI_post_init
    \/ SparkAIClose
    \/ SparkAIDestroy
    \/ CloseDriver
    \/ Close
    \/ ReleaseDriver
    \/ BrowserCrash
    \/ LaunchChromeForDebugging

\* The pool under the calls of SparkAI objects, one after the other.
SparkSpec == Init /\ [][SparkNext]_vars

LoginNext ==
    \/ AutoLogin
    \/ AutoLogin_get_driver
    \/ AutoLogin_check
    \/ AutoLogin_login
    \/ ManagerLogin
    \/ login_to_spark_get
    \/ login_to_spark_entry
    \/ login_to_spark_identifier
    \/ login_to_spark_next
    \/ login_to_spark_passcode
    \/ login_to_spark_verify
    \/ login_to_spark_generic_user
    \/ login_to_spark_generic_password
    \/ login_to_spark_generic_button
    \/ login_to_spark_final
    \/ login_to_spark_except
    \/ handle_duo_detect
    \/ handle_duo_select
    \/ handle_duo_wait
    \/ handle_duo_other
    \/ handle_duo_alt
    \/ BrowserCrash
    \/ LaunchChromeForDebugging

\* The login flows, one after the other, over the pool.
LoginSpec == Init /\ [][LoginNext]_vars

SendNext ==
    \/ SendMessage
    \/ send_message_url
    \/ send_message_navigate
    \/ send_message_auto_login
    \/ send_message_manual
    \/ OperatorEnter
    \/ send_message_to_spark_get_driver
    \/ is_logged_in_to_spark_get_driver
    \/ is_logged_in_to_spark_first
    \/ is_logged_in_to_spark_poll
    \/ is_logged_in_to_spark_timeout
    \/ send_message_to_spark_type
    \/ get_response_from_spark_get_driver
    \/ get_response_from_spark_wait
    \/ get_response_from_spark_extract
    \/ GetResponseAgain
    \/ send_message_return
    \/ _send_message
    \/ _get_llm_response_from_copy_button
    \/ BrowserCrash

\* The send_message calls, one after the other, over the pool.
SendSpec == Init /\ [][SendNext]_vars

\* One run of a command line: the constructor, the send_message call and the
\* return of main follow one another in the one thread of the process.
CliNext ==
    \/ main_parse_args
    \/ (cli.pc = "running" /\ spark.phase = "none" /\ SparkAI_new
            /\ spark'.browser_id \in ChatIds
            /\ spark'.force_new_chat = (spark'.chat_id_arg = "none"))
    \/ SparkAI_init_attempt
    \/ SparkAI_post_init
    \/ (cli.pc = "running" /\ spark.phase = "ready" /\ cli.message = "given"
            /\ chat.pc = "idle" /\ SendMessage /\ chat'.id = spark.browser_id)
    \/ send_message_url
    \/ send_message_navigate
    \/ send_message_auto_login
    \/ send_message_manual
    \/ OperatorEnter
    \/ send_message_to_spark_get_driver
    \/ is_logged_in_to_spark_get_driver
    \/ is_logged_in_to_spark_first
    \/ is_logged_in_to_spark_poll
    \/ is_logged_in_to_spark_timeout
    \/ send_message_to_spark_type
    \/ get_response_from_spark_get_driver
    \/ get_response_from_spark_wait
    \/ get_response_from_spark_extract
    \/ send_message_return
    \/ _send_message
    \/ _get_llm_response_from_copy_button
    \/ main_return
    \/ legacy_main_send
    \/ legacy_main_close

CliSpec == Init /\ [][CliNext]_vars

\* One browser was launched for id "a" and recorded in the pool.
TypeWorld ==
    StoreDriver(Launched([drivers |-> [id \in BrowserIds |-> NoDriver],
                          created |-> 0,
                          session |-> [h \in Handles |-> "none"],
                          browserOf |-> [h \in Handles |-> NoBrowser],
                          running |-> {}, portOwner |-> NoBrowser],
                         "a", TRUE), "a", 1)

\* The typing code is about to run on a message: in send_message_to_spark,
\* after the login check, or in the fallback of send_message.
TypeInit ==
    /\ drivers = TypeWorld.drivers
    /\ created = TypeWorld.created
    /\ session = TypeWorld.session
    /\ browserOf = TypeWorld.browserOf
    /\ running = TypeWorld.running
    /\ portOwner = TypeWorld.portOwner
    /\ ret = NoRet
    /\ spark = NoSpark
    /\ login = NoLogin
    /\ cli = NoCli
    /\ jar = NoJar
    /\ chat \in {[NoChat EXCEPT !.pc = pc, !.id = "a", !.driver = 1,
                                !.message = message] :
                    pc \in {"mts_type", "fb_send"}, message \in Messages}

TypeNext ==
    \/ send_message_to_spark_type
    \/ _send_message
    \/ BrowserCrash

\* The typing code on every message of the bound.
TypeSpec == TypeInit /\ [][TypeNext]_vars

\* ====================================================================
\* ChromeManager.load_cookies (and SparkAI._load_cookies of src/main.py)
\* ====================================================================
\* The keys of a saved cookie that the loop reads.  domain: missing, a domain
\* cookie of the university, the host of the single sign-on; sameSite:
\* missing (or a value other than "None", which the loop treats alike) or
\* "None"; secure: missing or its value; expiry: what int(cookie["expiry"])
\* is given, a number or a text int() rejects.
CookieDomains == {"absent", ".unimelb.edu.au", "sso.unimelb.edu.au"}
Cookie ==
    [domain : CookieDomains, sameSite : {"absent", "None"},
     secure : {"absent", "false", "true"}, expiry : {"number", "text"}]
CookieFiles == UNION {[1..n -> Cookie] : n \in 0..MaxCookies}

\* driver.current_url after driver.get("https://spark.unimelb.edu.au"): the
\* site, or the sign-on page it redirects a visitor without a session to.
Urls == {"https://spark.unimelb.edu.au/", "https://sso.unimelb.edu.au/login"}

\* cookie["domain"].lstrip(".")
lstrip(domain) ==
    IF domain = ".unimelb.edu.au" THEN "unimelb.edu.au" ELSE domain

\* domain in driver.current_url: the text occurs in the address
occurs_in(domain, url) ==
    \/ domain \in {"unimelb.edu.au", ".unimelb.edu.au"}
    \/ domain = "sso.unimelb.edu.au" /\ url = "https://sso.unimelb.edu.au/login"

\* cookie.get("secure", False)
cookie_get_secure(cookie) == cookie.secure = "true"

\* Faulty variant: the secure flag is not looked at
skips_every_none(cookie) ==
    cookie.sameSite # "absent" /\ cookie.sameSite = "None"

\* "Skip sameSite=None cookies in non-secure contexts": the test before continue
skips(cookie) ==
    /\ cookie.sameSite # "absent"
    /\ cookie.sameSite = "None"
    /\ ~cookie_get_secure(cookie)

JarAlive == Answers(World, jar.driver)

\* driver = self.get_driver(browser_id), whose exception leaves load_cookies;
\* driver.get(the site) and the sleep; open(cookie_file) and json.load inside
\* the try, whose exception makes the call return False.
load_cookies_get_driver ==
    /\ jar.pc = "lc_get_driver"
    /\ \E in \in GetDriverInputs(World, jar.id, TRUE, FALSE), url \in Urls,
          opened \in BOOLEAN :
          \E r \in {get_driver(World, jar.id, FALSE, TRUE, FALSE, in[1], in[2])} :
            /\ Becomes(r.w)
            /\ jar' = IF r.raised
                      THEN [jar EXCEPT !.pc = "done", !.result = "raised"]
                      ELSE IF ~opened
                      THEN [jar EXCEPT !.pc = "done", !.driver = r.val,
                                       !.url = url, !.result = "False"]
                      ELSE [jar EXCEPT !.pc = "lc_loop", !.driver = r.val,
                                       !.url = url, !.i = 1]
            /\ UNCHANGED <<ret, spark, login, chat, cli>>

\* One turn of "for cookie in cookies": a cookie without "domain" is passed
\* over; int() of a text raises and the outer except returns False; the
\* sameSite test continues; inside the inner try the domain is compared with
\* current_url and the cookie handed to add_cookie, and an exception of
\* either is printed and the loop goes on.
load_cookies_cookie ==
    /\ jar.pc = "lc_loop"
    /\ jar.i <= Len(jar.file)
    /\ \E cookie \in {jar.file[jar.i]} :
          \E taken \in IF /\ cookie.domain # "absent"
                          /\ cookie.expiry = "number"
                          /\ ~skips(cookie)
                          /\ JarAlive
                          /\ occurs_in(lstrip(cookie.domain), jar.url)
                       THEN BOOLEAN ELSE {FALSE} :
            jar' = IF cookie.domain = "absent"
                   THEN [jar EXCEPT !.i = @ + 1]
                   ELSE IF cookie.expiry = "text"
                   THEN [jar EXCEPT !.pc = "done", !.result = "False"]
                   ELSE IF skips(cookie)
                   THEN [jar EXCEPT !.i = @ + 1]
                   ELSE IF ~JarAlive
                   THEN [jar EXCEPT !.i = @ + 1, !.refused = @ \cup {jar.i}]
                   ELSE IF ~occurs_in(lstrip(cookie.domain), jar.url)
                   THEN [jar EXCEPT !.i = @ + 1]
                   ELSE IF taken
                   THEN [jar EXCEPT !.i = @ + 1, !.added = Append(@, jar.i)]
                   ELSE [jar EXCEPT !.i = @ + 1, !.refused = @ \cup {jar.i}]
    /\ UNCHANGED <<drivers, created, session, browserOf, running, portOwner,
                   ret, spark, login, chat, cli>>

\* After the loop driver.refresh() and return True; the exception of a lost
\* session is caught by the outer except, which returns False.
load_cookies_refresh ==
    /\ jar.pc = "lc_loop"
    /\ jar.i > Len(jar.file)
    /\ jar' = [jar EXCEPT !.pc = "done",
                          !.result = IF JarAlive THEN "True" ELSE "False"]
    /\ UNCHANGED <<drivers, created, session, browserOf, running, portOwner,
                   ret, spark, login, chat, cli>>

\* load_cookies is called for the pooled browser of id "a" on a cookie file.
CookieInit ==
    /\ drivers = TypeWorld.drivers
    /\ created = TypeWorld.created
    /\ session = TypeWorld.session
    /\ browserOf = TypeWorld.browserOf
    /\ running = TypeWorld.running
    /\ portOwner = TypeWorld.portOwner
    /\ ret = NoRet
    /\ spark = NoSpark
    /\ login = NoLogin
    /\ chat = NoChat
    /\ cli = NoCli
    /\ jar \in {[NoJar EXCEPT !.pc = "lc_get_driver", !.id = "a", !.file = file] :
                   file \in CookieFiles}

CookieNext ==
    \/ load_cookies_get_driver
    \/ load_cookies_cookie
    \/ load_cookies_refresh
    \/ BrowserCrash

\* Loading every cookie file of the bound.
CookieSpec == CookieInit /\ [][CookieNext]_vars

\* ====================================================================
\* ChromeManager.setup_chrome on every launch script
\* ====================================================================
\* setup_chrome is about to be called on an empty pool: ret holds the
\* arguments and the outcome each webdriver.Chrome(...) of the call will have.
LaunchInit ==
    /\ drivers = [id \in BrowserIds |-> NoDriver]
    /\ created = 0
    /\ session = [h \in Handles |-> "none"]
    /\ browserOf = [h \in Handles |-> NoBrowser]
    /\ running = {}
    /\ portOwner = NoBrowser
    /\ spark = NoSpark
    /\ login = NoLogin
    /\ chat = NoChat
    /\ cli = NoCli
    /\ jar = NoJar
    /\ ret \in [op : {"calling"}, id : BrowserIds, headless : BOOLEAN,
                remote_debugging : BOOLEAN, kill_zombie : BOOLEAN,
                outs : LaunchScripts, modes : {<<>>}, raised : {FALSE},
                val : {NoDriver}]

\* The call: lines 86-234 on the arguments of ret.
SetupChromeLaunch ==
    /\ ret.op = "calling"
    /\ \E r \in {setup_chrome(World, ret.id, ret.headless, ret.remote_debugging,
                              ret.kill_zombie, FALSE, "refused", ret.outs)} :
          /\ Becomes(r.w)
          /\ ret' = [ret EXCEPT !.op = "setup_chrome", !.modes = r.modes,
                                !.raised = r.raised, !.val = r.val]
    /\ UNCHANGED <<spark, login, chat, cli, jar>>

LaunchNext == SetupChromeLaunch

\* setup_chrome on every sequence of launch outcomes.
LaunchSpec == LaunchInit /\ [][LaunchNext]_vars

\* ====================================================================
\* The claims about the pool
\* ====================================================================
AcquireOps == {"setup_chrome", "get_driver"}
ReleaseOps == {"close", "release_driver", "SparkAI.close"}
DestroyOps == {"close_driver", "SparkAI.destroy"}

\* C1 - reuse idempotence: an acquisition (get_driver or setup_chrome) that
\* returns hands back the driver it leaves pooled under the id, and an
\* acquisition with force_new = False that finds the pooled driver of the id
\* alive returns that very driver, constructs nothing and changes nothing; so
\* the second of two acquisitions in a row returns the driver of the first.
C1_ReuseIdempotence ==
    /\ (ret.op \in AcquireOps /\ ~ret.raised) =>
           (ret.val # NoDriver /\ drivers[ret.id] = ret.val)
    /\ (ret.op \in AcquireOps /\ ~ret.force_new /\ ret.preAlive) =>
           /\ ~ret.raised
           /\ ret.val = ret.pre
           /\ ret.constructed = 0
           /\ ret.effect = "none"

C1_Witness ==
    /\ ret.op = "get_driver" /\ ~ret.force_new
    /\ ret.preAlive /\ ret.val = ret.pre /\ ret.val # NoDriver

\* C2 - self-healing: a get_driver that finds the pooled driver of the id
\* unresponsive quits it and takes it out of the pool; when it returns, it
\* returns a driver constructed after the dead one, alive and recorded under
\* the id; when it raises, nothing is recorded; the dead driver is never
\* handed to the caller.
C2_SelfHealing ==
    (ret.op = "get_driver" /\ ret.pre # NoDriver /\ ~ret.preAlive) =>
        /\ session[ret.pre] = "quit"
        /\ drivers[ret.id] # ret.pre
        /\ ret.val # ret.pre
        /\ ~ret.raised => /\ ret.val > ret.pre
                          /\ ret.valAlive
                          /\ drivers[ret.id] = ret.val
                          /\ ret.constructed >= 1
        /\ ret.raised => (ret.val = NoDriver /\ drivers[ret.id] = NoDriver)

C2_Witness ==
    /\ ret.op = "get_driver" /\ ret.pre # NoDriver /\ ~ret.preAlive
    /\ ~ret.raised /\ ret.val > ret.pre /\ drivers[ret.id] = ret.val

\* C3 - at most one open Handle per id: whenever a call replaces the pool
\* entry of an id by a new driver, the driver the id held before has been
\* quit.
C3_ReplacedHandleClosed ==
    (/\ ret.op \in AcquireOps \cup {"attach"}
     /\ ret.pre # NoDriver /\ ~ret.raised
     /\ ret.val # NoDriver /\ ret.val # ret.pre) =>
        session[ret.pre] = "quit"

\* C4 - sessions of different ids are independent: a call made for one id
\* leaves the pool entry of every other id as it was and its driver
\* answering, and no two ids drive the same browser.
C4_Independent ==
    /\ ret.op \notin {"none", "close_all"} => ret.effect # "others"
    /\ \A a, b \in BrowserIds :
          (a # b /\ InPool(World, a) /\ InPool(World, b)) =>
              browserOf[drivers[a]] # browserOf[drivers[b]]

\* C5 - release (ChromeManager.close, release_driver, SparkAI.close) changes
\* nothing: it does not raise, the driver stays recorded under the id and is
\* not quit, and the next get_driver for the id (the one SparkAI.__init__ or
\* navigate_to makes) returns that driver without constructing one, provided
\* it still answers.
C5_ReleaseKeepsHandle ==
    /\ [](ret.op \in ReleaseOps =>
            /\ ~ret.raised
            /\ ret.effect = "none"
            /\ drivers[ret.id] = ret.pre
            /\ ret.pre # NoDriver => session[ret.pre] # "quit")
    /\ [][(/\ ret.op \in ReleaseOps
           /\ ret' # ret
           /\ ret'.op \in {"SparkAI.__init__", "navigate_to"}
           /\ ret'.id = ret.id
           /\ Answers(World, drivers[ret.id])) =>
              (ret'.val = ret.pre /\ ret'.constructed = 0)]_vars

C5_Witness ==
    ret.op = "SparkAI.close" /\ ret.pre # NoDriver /\ ret.preAlive

\* What destroy is to leave behind.
Destroyed ==
    /\ ~ret.raised
    /\ drivers[ret.id] = NoDriver
    /\ ret.pre # NoDriver => session[ret.pre] = "quit"
    /\ ret.pre = NoDriver => ret.effect = "none"

C8_ForceNewCreates ==
    (ret.op = "get_driver" /\ ret.force_new /\ ret.preAlive /\ ~ret.raised) =>
        ret.val # ret.pre

\* C9 - setup_chrome for an id that is absent or whose driver is dead: when it
\* returns, the pool maps the id to the returned driver, which is a new one
\* and answers; when it raises, the pool entry of the id is the one it found.
C9_SetupRecords ==
    (ret.op = "setup_chrome" /\ ~ret.preAlive) =>
        /\ ~ret.raised => /\ ret.val # NoDriver
                          /\ ret.val # ret.pre
                          /\ drivers[ret.id] = ret.val
                          /\ ret.valAlive
        /\ ret.raised => (ret.val = NoDriver /\ drivers[ret.id] = ret.pre)

C9_Witness ==
    /\ ret.op = "setup_chrome" /\ ret.pre # NoDriver /\ ~ret.preAlive
    /\ ~ret.raised /\ drivers[ret.id] = ret.val /\ ret.valAlive

\* ====================================================================
\* The claims about the login flow
\* ====================================================================
NoField == <<>>

\* C10 as stated, the half of it about the page: when the element named
\* "prompt" is in the page at the check the login starts with (the check of
\* _auto_login, the 5 second wait of login_to_spark), the flow fills no field
\* and clicks no control.
C10_MarkerPresent ==
    (\/ login.seen_auto \in {"hidden", "shown"}
     \/ login.seen_entry \in {"hidden", "shown"}) =>
        login.acts = NoField

\* C10 as amended: when the element named "prompt" is in the page and
\* displayed at the check of _auto_login, or in the page within the 5 second
\* wait login_to_spark makes after its navigation, the flow ends in True with
\* no field filled and no control clicked.
C10_EntryShortCircuit ==
    /\ (login.seen_auto = "shown" \/ login.seen_entry \in {"hidden", "shown"}) =>
           (login.pc = "done" /\ login.result = "True" /\ login.acts = NoField)
    /\ login.seen_entry = "none" => login.acts = NoField

C10_Witness ==
    /\ login.flow = "auto" /\ login.pc = "done" /\ login.result = "True"
    /\ login.seen_auto = "hidden" /\ login.seen_entry = "hidden"
    /\ login.acts = NoField

\* ====================================================================
\* The claims about the failures of the login flow
\* ====================================================================
InLoginToSpark == login.entered /\ login.pc = "done"

\* C11: no exception of a page lookup, wait or click in the login flow
\* reaches the caller: once auth_utils.login_to_spark was entered, the flow
\* ends with True or with False and with nothing else, whatever was raised
\* and caught on the way (handle_duo_authentication included).
C11_NeverRaises ==
    login.entered =>
        /\ login.result # "raised"
        /\ login.pc = "done" => login.result \in {"True", "False"}

\* An exception was caught after the second factor was asked for, and the
\* flow still ended with a value.
C11_Witness ==
    /\ InLoginToSpark
    /\ login.caught
    /\ \E i \in 1..Len(login.acts) : login.acts[i] = "click_push"
    /\ login.result = "False"

InLog(e) == \E i \in 1..Len(chat.log) : chat.log[i] = e
NoCredentials == ~chat.creds /\ ~chat.env_creds /\ chat.pc # "idle"
ReauthSteps == {"auto_login", "manual_prompt"}

\* C13 as stated: without credentials no field is filled and the login step
\* never reports Failed because its time was over.
C13_NeverTimesOut ==
    NoCredentials =>
        /\ ~chat.check.filled
        /\ ~(chat.check.result = "False" /\ chat.check.timed_out)

\* C13, amended: without credentials no credential field is filled and no
\* automatic login is run; the manual step of send_message (input()) has no
\* clock: after the prompt the call stays there until the operator presses
\* Enter or the standard input ends.  (is_logged_in_to_spark does give up:
\* after max_wait_sec it answers False unless the page looks like the chat.)
C13_ManualStepHasNoClock ==
    NoCredentials =>
        /\ ~chat.check.filled
        /\ ~InLog("auto_login") /\ ~InLog("login_to_spark")
        /\ \A i \in 1..Len(chat.log) :
              chat.log[i] = "manual_prompt" =>
                  IF i = Len(chat.log) THEN chat.pc = "sm_manual"
                  ELSE chat.log[i + 1] \in {"enter", "eof"}

\* Without credentials the operator was asked, pressed Enter, and
\* is_logged_in_to_spark then gave up when its time was over.
C13_Witness ==
    /\ NoCredentials
    /\ InLog("manual_prompt") /\ InLog("enter")
    /\ chat.check.result = "False"
    /\ chat.check.timed_out

LineCount(message) ==
    1 + Cardinality({i \in 1..Len(message) : message[i] = LF})

\* The texts put back together with a line feed between two of them.
RECURSIVE JoinLines(_)
JoinLines(texts) ==
    IF Len(texts) = 0 THEN <<>>
    ELSE IF Len(texts) = 1 THEN texts[1]
    ELSE texts[1] \o <<LF>> \o JoinLines(Tail(texts))

\* The typing went to its end: the send control was activated.
Submitted == chat.keys # <<>> /\ chat.keys[Len(chat.keys)] = <<"click_send">>

\* C15: for a message of n >= 1 lines, a typing that goes to its end asks the
\* driver for exactly: clear the input, one direct input of line 1, then for
\* each of lines 2..n in order one Shift+Enter followed by that line's text,
\* then one activation of the send control, which comes last; so 1 direct
\* input and n-1 soft-newline-plus-text actions, the texts being the lines
\* of the message.  send_message_to_spark answers True only for such a
\* typing, and a typing that stops early has made a beginning of it only.
C15_TypedInLineOrder ==
    LET n == LineCount(chat.message)
        keys == chat.keys
        at(kind) == {i \in 1..Len(keys) : keys[i][1] = kind}
    IN  /\ Submitted =>
            /\ Len(keys) = n + 2
            /\ keys[1] = <<"clear">>
            /\ at("send_keys") = {2}
            /\ at("shift_enter_then") = 3..(n + 1)
            /\ at("click_send") = {n + 2}
            /\ \A i \in 2..(n + 1) : \A j \in 1..Len(keys[i][2]) : keys[i][2][j] # LF
            /\ JoinLines([i \in 1..n |-> keys[i + 1][2]]) = chat.message
        /\ chat.sent = "True" => Submitted
        /\ Len(keys) <= n + 2
        /\ at("clear") \subseteq {1}
        /\ at("click_send") \subseteq {n + 2}

\* A message of three lines, the second one empty, was typed to its end by
\* send_message_to_spark.
C15_Witness ==
    /\ chat.sent = "True"
    /\ chat.message = <<"x", LF, LF>>
    /\ chat.keys = << <<"clear">>, <<"send_keys", <<"x">> >>,
                      <<"shift_enter_then", <<>> >>,
                      <<"shift_enter_then", <<>> >>, <<"click_send">> >>

\* ---------------------------------------------------------------- C16
\* get_response_from_spark has returned to send_message after a wait for the
\* end of the answer that ran out of time.
WaitTimedOut == chat.pc = "sm_chat_id" /\ chat.completion = "timeout"

\* C16: when the end of the answer is not seen within the time given to the
\* wait, the call results in a timeout error, not in a response text, and the
\* session stays in the pool for the next call with the same id.
C16_TimeoutIsAnError ==
    WaitTimedOut =>
        /\ chat.result = "timeout_error"
        /\ chat.result \notin {"text", "notice"}
        /\ InPool(World, chat.id)

\* ---------------------------------------------------------------- C17
\* C17: a response is produced only after the completion predicate is
\* satisfied: get_response_from_spark returns no extracted text while the
\* loading animation is still there and no completion signal was seen.
C17_TextOnlyAfterCompletion ==
    (chat.pc = "sm_chat_id" /\ chat.result = "text") =>
        chat.completion = "cleared"

\* ---------------------------------------------------------------- C18
\* C18: the seconds given to the wait for the end of the answer are the
\* response timeout the SparkAI object was configured with.
C18_WaitsResponseTimeout ==
    chat.timeout_sec # 0 => chat.timeout_sec = chat.response_timeout

\* ---------------------------------------------------------------- C19
\* The extraction has run: get_response_from_spark is back in send_message
\* with what its strategies gave.
ExtractionRan == chat.pc = "sm_chat_id" /\ chat.tried # <<>>

\* The strategies that gave text, by their place in chat.tried.
Yielding == {i \in 1..Len(chat.tried) : chat.tried[i].yield = "text"}

\* The source a cascade returns: the first strategy tried that gave text, the
\* notice when none did.
FirstYielding ==
    IF Yielding = {} THEN "notice"
    ELSE chat.tried[CHOOSE i \in Yielding : \A j \in Yielding : i <= j].strategy

\* The strategies run in the order given by place, none of them twice.
InOrder(place) ==
    \A i, j \in 1..Len(chat.tried) :
        i < j => place[chat.tried[i].strategy] < place[chat.tried[j].strategy]

\* C19 as stated: the strategies are attempted in the order (1) copy button
\* and OS clipboard, (2) copy button and in-page clipboard script, (3) DOM
\* extraction of the latest response container, (4) raw visible text of the
\* latest non-user message, and the text returned is that of the first of
\* them, in that order, that gives non-empty text.
C19_ClipboardFirst ==
    ExtractionRan =>
        /\ \A i, j \in 1..Len(chat.tried) :
             i < j =>
               LET place == [os_clipboard |-> 1, in_page_clipboard |-> 2,
                             dom_text |-> 3, dom_script |-> 3, raw_text |-> 4]
               IN  place[chat.tried[i].strategy] <= place[chat.tried[j].strategy]
        /\ chat.source = FirstYielding

\* C19, amended: the strategies are attempted in the order (1) text of the
\* content element of the latest response, (2) copy button and OS clipboard,
\* (3) copy button and in-page clipboard helper, (4) DOM extraction by
\* script, (5) raw visible text of the latest non-user message; the first is
\* always attempted, and the text returned is that of the first strategy
\* attempted that gives non-empty text, the notice when none does.
C19_DomFirst ==
    ExtractionRan =>
        /\ chat.tried[1].strategy = "dom_text"
        /\ InOrder([dom_text |-> 1, os_clipboard |-> 2, in_page_clipboard |-> 3,
                    dom_script |-> 4, raw_text |-> 5])
        /\ chat.source = FirstYielding
        /\ chat.result = (IF chat.source = "notice" THEN "notice" ELSE "text")

\* The content element was empty, the copy button gave nothing through either
\* clipboard, and the script's text is what is returned.
C19_Witness ==
    /\ ExtractionRan
    /\ [i \in 1..Len(chat.tried) |-> chat.tried[i].strategy]
         = <<"dom_text", "os_clipboard", "in_page_clipboard", "dom_script">>
    /\ chat.source = "dom_script"

\* ---------------------------------------------------------------- C20
\* C20: once a strategy has given non-empty text no later strategy is run in
\* that call; after a non-empty read of the OS clipboard there is no in-page
\* clipboard call, no DOM script and no read of the raw text.
C20_ShortCircuit ==
    ExtractionRan =>
        /\ Yielding \subseteq {Len(chat.tried)}
        /\ (\E i \in Yielding : chat.tried[i].strategy = "os_clipboard") =>
              \A j \in 1..Len(chat.tried) :
                 chat.tried[j].strategy \notin
                    {"in_page_clipboard", "dom_script", "raw_text"}

\* The OS clipboard gave the text after the content element gave none.
C20_Witness ==
    /\ ExtractionRan
    /\ chat.source = "os_clipboard"
    /\ chat.tried = << [strategy |-> "dom_text", yield |-> "nothing"],
                       [strategy |-> "os_clipboard", yield |-> "text"] >>

\* ---------------------------------------------------------------- C21
\* get_response_from_spark has returned what its strategies gave, and
\* send_message returns it.
ResponseReturned ==
    /\ chat.pc \in {"sm_chat_id", "done"} /\ chat.tried # <<>>
    /\ chat.result \in {"text", "notice"}

C22_SameTextAgain ==
    (chat.pc = "done" /\ chat.calls > 0 /\ chat.prev # "none"
        /\ chat.result = "text") =>
        /\ chat.text = chat.prev
        /\ Len(SelectSeq(chat.log, LAMBDA e : e = "type")) = 1

\* ---------------------------------------------------------------- C23
\* C23: no step of a send/receive call, failed or not, destroys the session:
\* no driver that answers is quit, and an id whose driver answers stays in
\* the pool with that driver; only a driver that does not answer is
\* replaced.
C23_SessionKept ==
    [][/\ \A h \in Handles : session[h] = "open" => session'[h] # "quit"
       /\ \A id \in BrowserIds :
             (InPool(World, id) /\ Answers(World, drivers[id])) =>
                drivers'[id] = drivers[id]]_vars

\* send_message failed: the manager could not send, the fallback had no
\* response either, and the driver of the id is pooled and answers.
C23_Witness ==
    /\ chat.pc = "done" /\ chat.result = "error_text" /\ chat.sent = "False"
    /\ InPool(World, chat.id) /\ Answers(World, drivers[chat.id])

\* ---------------------------------------------------------------- C24
\* A command-line run that sent a message ends with this step.
MainEnds == cli.pc \in {"running", "closing"} /\ cli'.pc = "exited"
                /\ cli.message = "given" /\ cli'.exit = 0

\* The step leaves every browser as it is: no driver that answers stops
\* answering, and the pool holds what it held.
Released ==
    /\ \A h \in Handles : session[h] = "open" => session'[h] = "open"
    /\ drivers' = drivers

\* C24 as stated: by default the front end releases and does not destroy the
\* session after a call: when a command-line entry point finishes a send the
\* browser is still open and pooled under the same id.
C24_FrontEndReleases == [][MainEnds => Released]_vars

\* C24, amended: the console entry point, main of SparkAI.py, releases and
\* does not destroy the session when it finishes a send: the browser is as
\* open as it was and stays pooled under the same id; the script src/main.py
\* quits its browser when it finishes a send.
C24_ConsoleReleases ==
    [][MainEnds =>
         /\ cli.entry = "SparkAI.main" => Released
         /\ cli.entry = "main.py" => session'[cli.driver] = "quit"]_vars

\* The console entry point has returned after a send that gave a text; the
\* browser of its id is pooled and answers.
C24_Witness ==
    /\ cli.pc = "exited" /\ cli.entry = "SparkAI.main" /\ cli.sent = "text"
    /\ InPool(World, spark.browser_id)
    /\ Answers(World, drivers[spark.browser_id])

\* ====================================================================
\* The claims about the cookie file
\* ====================================================================
\* the positions of the file, in file order, whose cookie satisfies keep
Positions(file, keep(_)) ==
    SelectSeq([k \in 1..Len(file) |-> k], LAMBDA k : keep(file[k]))

\* a cookie the claim says is never added
Dropped(cookie) ==
    \/ cookie.domain = "absent"
    \/ cookie.sameSite = "None" /\ cookie.secure \in {"absent", "false"}

Loaded25 == jar.pc = "done" /\ jar.result = "True"

\* C25 as stated - when cookies are loaded, no cookie without a domain and
\* no cookie with sameSite "None" whose secure flag is absent or false is
\* added, and each remaining cookie is added, in file order.
C25_RemainingAdded ==
    /\ \A n \in 1..Len(jar.added) : ~Dropped(jar.file[jar.added[n]])
    /\ Loaded25 => jar.added = Positions(jar.file, LAMBDA c : ~Dropped(c))

\* C25 - when cookies are loaded, no cookie without a domain and no cookie
\* with sameSite "None" whose secure flag is absent or false is added; the
\* cookies added are, in file order, the remaining cookies whose domain,
\* leading dots removed, occurs in the address the browser shows, less those
\* the browser refused; a cookie whose expiry is not a number ends the load,
\* which then reports failure.
C25_RemainingOnSiteAdded ==
    /\ \A n \in 1..Len(jar.added) : ~Dropped(jar.file[jar.added[n]])
    /\ \A n \in 1..Len(jar.added) :
           jar.file[jar.added[n]].domain \in
               IF jar.url = "https://sso.unimelb.edu.au/login"
               THEN {".unimelb.edu.au", "sso.unimelb.edu.au"}
               ELSE {".unimelb.edu.au"}
    /\ \A n \in 1..Len(jar.added) : jar.file[jar.added[n]].expiry = "number"
    /\ Loaded25 =>
           /\ \A k \in 1..Len(jar.file) :
                  jar.file[k].domain # "absent" => jar.file[k].expiry = "number"
           /\ jar.added =
                  SelectSeq([k \in 1..Len(jar.file) |-> k],
                            LAMBDA k : /\ ~Dropped(jar.file[k])
                                       /\ k \notin jar.refused
                                       /\ (jar.file[k].domain = "sso.unimelb.edu.au"
                                             => jar.url = "https://sso.unimelb.edu.au/login"))

C25_Witness ==
    /\ Loaded25
    /\ Len(jar.file) = 2
    /\ jar.added = <<2>>
    /\ Dropped(jar.file[1])
    /\ jar.file[1].domain # "absent"

\* ====================================================================
\* The claims about the credentials
\* ====================================================================
Usernames == {"alice", "bob"}
Secrets == {"one", "two"}

\* what the process prints when it runs with the given credentials
Printed(username, password) ==
    [i \in 1..Len(chat.out) |->
        <<chat.out[i].text,
          IF chat.out[i].shows = "username" THEN username
          ELSE IF chat.out[i].shows = "password" THEN password
          ELSE "">>]

\* C26 - neither the username nor the secret is written to a log or to the
\* debug output: what two runs that differ only in the credentials print is
\* the same.
C26_OutputSameForAllCredentials ==
    \A u1 \in Usernames, u2 \in Usernames, p1 \in Secrets, p2 \in Secrets :
        Printed(u1, p1) = Printed(u2, p2)

\* ====================================================================
\* The claims about the exit code
\* ====================================================================
CliExited == cli.pc = "exited"

\* the run sent the message and got the text of an answer
ResponseObtained ==
    cli.message = "given" /\ cli.sent \in {"text", "returned"}

\* the run had no message to send, or the send raised or came back with the
\* text of its error
Unrecoverable ==
    \/ cli.message = "none"
    \/ cli.sent \in {"raised", "error_text"}

\* C27 - the command line exits with code 0 when a message was sent and a
\* response obtained, and with a non-zero code on an unrecoverable error,
\* the absence of a message included.
C27_ExitCodes ==
    CliExited =>
        /\ ResponseObtained => cli.exit = 0
        /\ Unrecoverable => cli.exit # 0

\* ====================================================================
\* The claims about the copy buttons
\* ====================================================================
BaselineRead == chat.baseline # -1

\* C28 - the number of copy buttons that the marker-count signal compares
\* against is read before the message is submitted: it never includes the
\* button of the new answer, so that this button makes the count exceed it.
C28_BaselineBeforeSending ==
    BaselineRead => chat.baseline = 0

\* ====================================================================
\* The claims about the order of the login form
\* ====================================================================
\* act was done before the i-th UI action of the flow
DoneBefore(act, i) == \E j \in 1..(i - 1) : login.acts[j] = act

SecretFills == {"fill_passcode", "fill_generic_password"}
ChallengePcs == {"duo_detect", "duo_select", "duo_wait", "duo_other", "duo_alt"}
ChallengeActs == {"click_push", "click_auth", "click_other", "click_alt"}

\* C29 as stated - the secret is typed only after the identifier was filled
\* and its step submitted, and the challenge handling starts only after the
\* secret has been submitted.
C29_IdentifierSubmittedFirst ==
    /\ \A i \in 1..Len(login.acts) :
           login.acts[i] \in SecretFills =>
               DoneBefore("fill_identifier", i) /\ DoneBefore("click_next", i)
    /\ (login.pc \in ChallengePcs \/ \E i \in 1..Len(login.acts) :
                                        login.acts[i] \in ChallengeActs) =>
           \E i \in 1..Len(login.acts) : login.acts[i] = "click_verify"

\* C29 - on the two-step form of login_to_spark the secret is typed only
\* after the identifier was filled and its step submitted, and the challenge
\* handling starts only after the secret was typed and submitted there; the
\* generic form, tried when the two-step form failed, is given the secret
\* before its one button is clicked, and no challenge handling follows it.
C29_TwoStepFormInOrder ==
    /\ \A i \in 1..Len(login.acts) :
           login.acts[i] = "fill_passcode" =>
               i = 3 /\ login.acts[1] = "fill_identifier"
                     /\ login.acts[2] = "click_next"
    /\ \A i \in 1..Len(login.acts) :
           login.acts[i] = "fill_generic_password" =>
               /\ login.caught
               /\ ~DoneBefore("click_generic_login", i)
               /\ ~DoneBefore("click_verify", i)
    /\ (login.pc \in ChallengePcs \/ \E i \in 1..Len(login.acts) :
                                        login.acts[i] \in ChallengeActs) =>
           /\ Len(login.acts) >= 4
           /\ SubSeq(login.acts, 1, 4) =
                  <<"fill_identifier", "click_next", "fill_passcode", "click_verify">>
           /\ \A i \in 1..Len(login.acts) :
                  login.acts[i] \notin {"fill_generic_user", "fill_generic_password",
                                        "click_generic_login"}

C29_Witness ==
    /\ login.pc = "duo_wait"
    /\ login.acts = <<"fill_identifier", "click_next", "fill_passcode",
                      "click_verify", "click_push">>

\* ====================================================================
\* The claims about the second factor
\* ====================================================================
\* the selection step of handle_duo_authentication ran
MethodSought == login.seen_push # "unsought"

\* the clicks of the selection step that went through
MethodClicks ==
    SelectSeq(login.acts, LAMBDA a : a \in {"click_push", "click_auth"})

\* C30 - at the selection step of the second factor the push button is the
\* one clicked whenever there is one, and then no other method is clicked at
\* this step; without a push button the first of the other methods is the one
\* clicked; when there is any method, .click() is called on exactly one
\* element, and on none when there is no method.
C30_PushElseFirstAlternate ==
    MethodSought =>
        /\ login.seen_push = "found" =>
               /\ login.chosen = "push_buttons[0]"
               /\ login.seen_auth = "unsought"
               /\ MethodClicks \in {<<>>, <<"click_push">>}
        /\ (login.seen_push = "none" /\ login.seen_auth = "found") =>
               /\ login.chosen = "auth_buttons[0]"
               /\ MethodClicks \in {<<>>, <<"click_auth">>}
        /\ (login.seen_push = "none" /\ login.seen_auth = "none") =>
               /\ login.chosen = "none"
               /\ MethodClicks = <<>>
        /\ login.pc = "duo_wait" => Len(MethodClicks) = 1

C30_Witness ==
    /\ login.pc = "duo_wait"
    /\ login.seen_push = "none" /\ login.seen_auth = "found"
    /\ login.chosen = "auth_buttons[0]"
    /\ MethodClicks = <<"click_auth">>

\* ====================================================================
\* The claims about the retry of the second factor
\* ====================================================================
Count(act) == Len(SelectSeq(login.acts, LAMBDA a : a = act))

LoginFailed == login.pc = "done" /\ login.result = "False"

\* C31 - when the wait for the element named "prompt" after the choice of a
\* method times out, another way to verify is tried at most once, and it is
\* tried, whenever the page shows the link to switch, before the login ends
\* with False.
C31_OneSwitchBeforeFailed ==
    /\ Count("click_other") <= 1
    /\ Count("click_alt") <= 1
    /\ login.switched => login.timed_out /\ login.seen_other = "found"
    /\ (login.timed_out /\ LoginFailed) =>
           /\ login.seen_other # "unsought"
           /\ login.seen_other = "found" => login.switched

C31_Witness ==
    /\ LoginFailed
    /\ login.timed_out /\ login.seen_other = "found" /\ login.switched
    /\ Count("click_other") = 1 /\ Count("click_alt") = 1

\* ====================================================================
\* The claims about the launch mode
\* ====================================================================
SetupChromeReturned == ret.op = "setup_chrome"

\* C32 - when a launch of one setup_chrome call fails with "unable to connect
\* to renderer" while not headless, every later launch of the call is
\* headless; the first launch has the mode the call was given, and no other
\* failure changes the mode.
C32_HeadlessAfterRenderer ==
    SetupChromeReturned =>
        /\ Len(ret.modes) >= 1
        /\ ret.modes[1] = ret.headless
        /\ \A i \in 1..Len(ret.modes) : \A j \in (i + 1)..Len(ret.modes) :
               (ret.outs[i] = "renderer" /\ ~ret.modes[i]) => ret.modes[j]
        /\ \A i \in 1..(Len(ret.modes) - 1) :
               ret.modes[i + 1] # ret.modes[i] =>
                   /\ ret.outs[i] = "renderer"
                   /\ ~ret.modes[i]
        /\ \A i \in 1..(Len(ret.modes) - 1) : ret.outs[i] # "ok"

C32_Witness ==
    /\ SetupChromeReturned /\ ~ret.raised
    /\ ret.outs = <<"other", "renderer", "ok">>
    /\ ret.modes = <<FALSE, FALSE, TRUE>>

\* ---------------------------------------------------------------- C33
\* The constructor of src/main.py was given a cookie file and has run.
CookieRun == cli.entry = "main.py" /\ cli.cookie_file # "none"
                /\ cli.cookies # <<>>

Has(event) == \E k \in 1..Len(cli.cookies) : cli.cookies[k] = event

\* C33 as stated: cookies are loaded from the cookie file before the first
\* navigation to the chat address, and the file is written only after the
\* session is authenticated: no save follows a login attempt that failed, and
\* a session given a cookie file always performs the load.
C33_LoadFirstSaveWhenAuthenticated ==
    CookieRun =>
        /\ Has("load")
        /\ \A k \in 1..Len(cli.cookies) :
              cli.cookies[k] = "navigate" =>
                  \E j \in 1..(k - 1) : cli.cookies[j] = "load"
        /\ Has("save") => cli.authenticated /\ ~Has("login_failed")

\* ---------------------------------------------------------------- C34
\* The constructor has returned for a caller that asked for a new chat.
NewChatAsked == spark.phase = "ready" /\ spark.force_new_chat

\* C34 as stated: with force_new_chat the initialization ends with chat_id
\* reset to None and the browser on the thread-less new-chat address, even
\* when a chat_id argument was given: no later step of the initialization
\* brings the browser back to an existing thread.
C34_NewChatStaysNew ==
    NewChatAsked => spark.chat_id = "none" /\ spark.url # "thread"

\* ---------------------------------------------------------------- C35
\* send_message found the browser on a chat page of the site, the thread the
\* session was created with, and the message was typed.
TypedWhenAuthenticated ==
    /\ chat.url = "chat"
    /\ \E k \in 1..Len(chat.log) : chat.log[k] = "type"

\* C35 as stated: when a session created with thread T is authenticated,
\* send_message types and submits the message while the browser is on thread
\* T: no step between the initialization and the submit sends the browser to
\* another thread or to the thread-less chat root.
C35_TypedOnThread == TypedWhenAuthenticated => chat.page = "kept"

\* ---------------------------------------------------------------- C36
\* One send_message call over the pool, on a machine where the operator can
\* start a Chrome on the debugging port (launch_chrome_for_debugging), which
\* get_driver attaches to.
OneSendNext ==
    \/ (chat.pc = "idle" /\ SendMessage)
    \/ send_message_url
    \/ send_message_navigate
    \/ send_message_auto_login
    \/ send_message_manual
    \/ OperatorEnter
    \/ send_message_to_spark_get_driver
    \/ is_logged_in_to_spark_get_driver
    \/ is_logged_in_to_spark_first
    \/ is_logged_in_to_spark_poll
    \/ is_logged_in_to_spark_timeout
    \/ send_message_to_spark_type
    \/ get_response_from_spark_get_driver
    \/ get_response_from_spark_wait
    \/ get_response_from_spark_extract
    \/ send_message_return
    \/ _send_message
    \/ _get_llm_response_from_copy_button
    \/ BrowserCrash
    \/ LaunchChromeForDebugging

OneSendSpec == Init /\ [][OneSendNext]_vars

\* The fallback _send_message has just run and clicked the send button.
FallbackClicked ==
    /\ chat.pc = "fb_response"
    /\ chat.keys # <<>> /\ chat.keys[Len(chat.keys)] = <<"click_send">>

\* C36 as stated: one send_message call activates the send control at most
\* once: the fallback _send_message never submits the message after
\* send_message_to_spark has clicked send in the same call.
C36_SendClickedOnce == FallbackClicked => chat.sent # "True"

\* ---------------------------------------------------------------- C37
\* The login check of send_message_to_spark has just failed.
LoginCheckFailed ==
    /\ chat.pc = "fb_send"
    /\ chat.check.caller = "send" /\ chat.check.result = "False"

\* C37: message text is typed into the page only when the element named
\* "prompt", the mark of an authenticated page, is there: when the login check
\* fails send_message_to_spark sends no input and returns False, and no other
\* path of send_message types the message into a page without the element.
C37_TypedOnlyOnMarker ==
    /\ chat.keys # <<>> => chat.box \in {"hidden", "shown"}
    /\ LoginCheckFailed => chat.keys = <<>> /\ chat.sent = "False"

\* The login check failed, and the fallback then found the element and typed
\* the whole message.
C37_Witness ==
    /\ chat.pc = "fb_response"
    /\ chat.check.caller = "send" /\ chat.check.result = "False"
    /\ chat.keys = type_keys(chat.message) /\ chat.box = "shown"

\* ---------------------------------------------------------------- C38
\* C38 as stated: within one is_logged_in_to_spark call the credentials are
\* typed into the login form at most once, however many turns of the loop see
\* the form, the turns in which the login button is absent or not displayed
\* included.
C38_CredentialsTypedOnce == chat.check.fills <= 1

\* ---------------------------------------------------------------- C39
\* is_logged_in_to_spark has returned True.
CheckedTrue == chat.check.result = "True"

\* C39 as stated: is_logged_in_to_spark returns True only if the element
\* named "prompt" was found and displayed during the call.
C39_TrueOnlyOnMarker == CheckedTrue => chat.check.displayed

\* C39, amended: is_logged_in_to_spark returns True only if the element named
\* "prompt" was found and displayed during the call, or if, once max_wait_sec
\* was over, the URL was the chat page's and the page source held a text area.
C39_TrueOnMarkerOrLastChance ==
    CheckedTrue =>
        \/ chat.check.displayed /\ ~chat.check.timed_out
        \/ chat.check.looks /\ chat.check.timed_out

\* The time was over, the element was never seen displayed, and the last
\* check of the URL and the page source gave True.
C39_Witness ==
    /\ CheckedTrue /\ chat.check.timed_out
    /\ chat.check.looks /\ ~chat.check.displayed

\* ---------------------------------------------------------------- C40
\* The steps of a send_message call that wait for nobody: each ends when its
\* page waits end.
CallStep ==
    \/ send_message_url
    \/ send_message_navigate
    \/ send_message_auto_login
    \/ send_message_manual
    \/ send_message_to_spark_get_driver
    \/ is_logged_in_to_spark_get_driver
    \/ is_logged_in_to_spark_first
    \/ is_logged_in_to_spark_poll
    \/ is_logged_in_to_spark_timeout
    \/ send_message_to_spark_type
    \/ get_response_from_spark_get_driver
    \/ get_response_from_spark_wait
    \/ get_response_from_spark_extract
    \/ send_message_return
    \/ _send_message
    \/ _get_llm_response_from_copy_button

\* One send_message call in the one thread of its caller.  A Chrome ends only
\* while the pool can still launch another.
TermNext ==
    \/ (chat.pc = "idle" /\ SendMessage)
    \/ CallStep
    \/ OperatorEnter
    \/ (created < MaxHandles /\ BrowserCrash)

\* The thread runs: a step of the call that can be taken is taken.  Nothing
\* makes the operator answer the prompt.
TermSpec == Init /\ [][TermNext]_vars /\ WF_vars(CallStep)

InCall == chat.pc \notin {"idle", "done"}

\* C40: with credentials configured, so that the operator is never asked,
\* every send_message call ends, with a response or an error: no loop of the
\* login check, the sending, the wait for the end of the answer or the
\* extraction runs without bound.
C40_SendTerminates == (InCall /\ chat.creds) ~> (chat.pc = "done")

\* A call with credentials went through the login again, the login check ran
\* to the end of its time, and the call has ended.
C40_Witness ==
    /\ chat.pc = "done" /\ chat.creds /\ chat.check.timed_out
    /\ \E k \in 1..Len(chat.log) : chat.log[k] = "auto_login"

====
